---- MODULE Spec2Model ----
(***************************************************************************)
(* Verification model of the hallucination-guardrail workflow:             *)
(*   - the LangGraph run built by create_workflow (src/graph/workflow.py)   *)
(*     and the six node functions (src/agents/*.py);                       *)
(*   - throttle_before_api_call and _invoke_with_retry (src/config.py);     *)
(*   - the StoreManager singleton (src/rag/store_manager.py).               *)
(* Each subsystem has its own specification over the shared variables:     *)
(* Spec (one workflow run; SpecFair adds fair scheduling), SpecThrottle,   *)
(* SpecStore, SpecRetry, SpecRuns (concurrent runs), SpecTable (the        *)
(* structured store), and SpecAggregate, SpecGate, SpecFuse, SpecRelScore, *)
(* SpecVecScore, SpecVerify for the functions of the verifier and of the   *)
(* escalation gate.                                                        *)
(*                                                                         *)
(* Confidences are integers in ten-thousandths (0.7 is 7000; a value the   *)
(* code has rounded to 3 decimals is a multiple of 10), times are whole     *)
(* seconds.  An optional value is a sequence of length 0 (absent) or 1.    *)
(***************************************************************************)
EXTENDS Integers, Sequences, FiniteSets, TLC

VARIABLES
    \* ---- one workflow run (src/graph/workflow.py) ----
    provider,       \* initial["llm_provider"]
    apiKey,         \* whether the provider's API key is set in the environment
    chan,           \* the committed RunState: key -> optional value
    pc,             \* node -> position of its task in the current superstep
    out,            \* node -> the dict its function returned in this superstep
    trig,           \* nodes triggered for the next superstep
    step,           \* superstep number
    run,            \* "running" | "done" | "failed"
    err,            \* what failed the run
    begun,          \* nodes whose function has started at least once
    completed,      \* nodes whose function has returned at least once
    order,          \* node names in the order their functions started
    execCount,      \* node -> number of times its function started
    llmCalls,       \* node -> number of calls it made to the generator
    evalLog,        \* records appended to paths.EVAL_LOG
    reviewQueue,    \* records appended to human_review_queue.jsonl
    earlyReads,     \* <<node, field>>: node read field while it was absent
    routeDecision,  \* optional result of _should_verify
    planReply,      \* optional result.route of the planner's reply
    \* ---- throttle_before_api_call (src/config.py) ----
    now,            \* time.monotonic(), whole seconds
    lastCall,       \* _last_api_call_time
    tpc,            \* caller -> position in throttle_before_api_call
    tElapsed,       \* caller -> its local `elapsed`
    tWake,          \* caller -> the instant its time.sleep ends
    tCalls,         \* caller -> number of calls it has completed
    returns,        \* the instants at which calls returned, in order
    \* ---- StoreManager (src/rag/store_manager.py) ----
    instance,       \* StoreManager._instance: 0 is None, else an object id
    objs,           \* the StoreManager objects created, by id
    lock,           \* StoreManager._lock: 0 is free, else the holder
    spc,            \* thread -> position in StoreManager()
    self,           \* thread -> the object __new__ returned to it
    sCalls,         \* thread -> number of StoreManager() calls finished
    results,        \* thread -> what each of its finished calls gave
    bodyRuns,       \* times the initialization body was entered
    buildsDone,     \* times the initialization body ran to its end
    buildsFailed,   \* times the initialization body raised
    recheckHits,    \* times the check under the lock found it initialized
    \* ---- _invoke_with_retry (src/config.py) ----
    rMax,           \* max_retries
    rPc,            \* "try" | "sleeping" | "returned" | "raised"
    rAttempt,       \* the loop variable `attempt`
    rOutcomes,      \* what each call of fn() did, in order
    rSleeps,        \* the arguments of time.sleep, in order
    rLastError,     \* optional last_error
    rRaised,        \* optional error raised to the caller
    rResult,        \* optional value returned to the caller
    \* ---- concurrent runs in one process (src/graph/workflow.py) ----
    compiled,       \* _compiled_workflow: 0 is None, else a graph id
    mGraphs,        \* number of graphs create_workflow has built
    mPc,            \* run -> position in _run_workflow_async
    mGraph,         \* run -> the graph whose ainvoke it called
    mState,         \* state id -> the RunState held under that id
    mResult,        \* run -> optional final_state returned to its caller
    mAccess,        \* <<object, id, run>>: run read or wrote the object
    mLog,           \* the lines of paths.EVAL_LOG, by run
    mQueue,         \* the lines of human_review_queue.jsonl, by run
    \* ---- the aggregate of verifier_node on a list of records ----
    aggIn,          \* the fused records
    aggOut,         \* optional final_result computed from them
    \* ---- human_validation_node on a given final_result ----
    gFinal,         \* optional state["final_result"]
    gOut,           \* optional outcome: needs_human, human_feedback, queue
    \* ---- _fuse(rel, vec) ----
    fRel,           \* the exact-match score
    fVec,           \* the semantic score
    fOut,           \* optional fused record
    \* ---- IPCBNSRelationalStore (src/rag/vectorstore.py) ----
    tRows,          \* the rows of ipcbns_mapping, oldest first
    tHist,          \* the triples upsert_mapping was called with, in order
    tGot,           \* optional last get_by_ipc: its key and what it gave
    \* ---- _score_relational(claim, rel) ----
    xClaim,         \* the claim
    xTable,         \* the rows of the table
    xOut,           \* optional score
    \* ---- _score_vector(claim, vec) ----
    vSecs,          \* _extract_sections(claim), in list order
    vResults,       \* what vec.query returned, best first
    vOut,           \* optional score, with the ladder that gave it
    \* ---- the loop of verifier_node on the verify route ----
    pTable,         \* the rows of the table
    pClaims,        \* state["claims"]
    pRecs,          \* per claim done: the two scores and the fused record
    pFinal          \* optional state["final_result"]

wfVars == <<provider, apiKey, chan, pc, out, trig, step, run, err, begun,
            completed, order, execCount, llmCalls, evalLog, reviewQueue,
            earlyReads, routeDecision, planReply>>

thVars == <<now, lastCall, tpc, tElapsed, tWake, tCalls, returns>>

smVars == <<instance, objs, lock, spc, self, sCalls, results, bodyRuns,
            buildsDone, buildsFailed, recheckHits>>

rtVars == <<rMax, rPc, rAttempt, rOutcomes, rSleeps, rLastError, rRaised,
            rResult>>

mrVars == <<compiled, mGraphs, mPc, mGraph, mState, mResult, mAccess, mLog,
            mQueue>>

agVars == <<aggIn, aggOut>>

gtVars == <<gFinal, gOut>>

fuVars == <<fRel, fVec, fOut>>

tbVars == <<tRows, tHist, tGot>>

xrVars == <<xClaim, xTable, xOut>>

svVars == <<vSecs, vResults, vOut>>

vpVars == <<pTable, pClaims, pRecs, pFinal>>

vars == <<wfVars, thVars, smVars, rtVars, mrVars, agVars, gtVars, fuVars,
         tbVars, xrVars, svVars, vpVars>>

\* each specification moves one subsystem and leaves the others alone
WfOnly ==
    UNCHANGED <<thVars, smVars, rtVars, mrVars, agVars, gtVars, fuVars,
                tbVars, xrVars, svVars, vpVars>>

ThOnly ==
    UNCHANGED <<wfVars, smVars, rtVars, mrVars, agVars, gtVars, fuVars,
                tbVars, xrVars, svVars, vpVars>>

SmOnly ==
    UNCHANGED <<wfVars, thVars, rtVars, mrVars, agVars, gtVars, fuVars,
                tbVars, xrVars, svVars, vpVars>>

RtOnly ==
    UNCHANGED <<wfVars, thVars, smVars, mrVars, agVars, gtVars, fuVars,
                tbVars, xrVars, svVars, vpVars>>

MrOnly ==
    UNCHANGED <<wfVars, thVars, smVars, rtVars, agVars, gtVars, fuVars,
                tbVars, xrVars, svVars, vpVars>>

AgOnly ==
    UNCHANGED <<wfVars, thVars, smVars, rtVars, mrVars, gtVars, fuVars,
                tbVars, xrVars, svVars, vpVars>>

GtOnly ==
    UNCHANGED <<wfVars, thVars, smVars, rtVars, mrVars, agVars, fuVars,
                tbVars, xrVars, svVars, vpVars>>

FuOnly ==
    UNCHANGED <<wfVars, thVars, smVars, rtVars, mrVars, agVars, gtVars,
                tbVars, xrVars, svVars, vpVars>>

TbOnly ==
    UNCHANGED <<wfVars, thVars, smVars, rtVars, mrVars, agVars, gtVars,
                fuVars, xrVars, svVars, vpVars>>

XrOnly ==
    UNCHANGED <<wfVars, thVars, smVars, rtVars, mrVars, agVars, gtVars,
                fuVars, tbVars, svVars, vpVars>>

SvOnly ==
    UNCHANGED <<wfVars, thVars, smVars, rtVars, mrVars, agVars, gtVars,
                fuVars, tbVars, xrVars, vpVars>>

VpOnly ==
    UNCHANGED <<wfVars, thVars, smVars, rtVars, mrVars, agVars, gtVars,
                fuVars, tbVars, xrVars, svVars>>

----------------------------------------------------------------------------
(* Optional values and dicts                                               *)

None == <<>>

Some(v) == <<v>>

\* dict.get(k, default)
Get(d, k, default) == IF d[k] = None THEN default ELSE d[k][1]

----------------------------------------------------------------------------
(* The graph of create_workflow                                            *)

Nodes == {"planner", "primary_llm", "claim_extractor", "verifier",
          "human_validation", "evaluation"}

\* keys of `initial` in _run_workflow_async
InputKeys == {"question", "llm_provider", "llm_model", "metadata"}

\* the keys of VerificationState the nodes produce
Fields == {"plan", "route", "llm_answer", "claims", "verifications",
           "final_result", "needs_human", "human_feedback", "evaluation"}

Keys == InputKeys \cup Fields

\* g.add_edge(START, "planner"); g.add_edge(START, "primary_llm")
StartNodes == {"planner", "primary_llm"}

\* the g.add_edge(a, b) calls between nodes; "evaluation" leads to END
Edges(n) ==
    CASE n = "primary_llm"      -> {"claim_extractor"}
      [] n = "claim_extractor"  -> {"verifier"}
      [] n = "verifier"         -> {"human_validation"}
      [] n = "human_validation" -> {"evaluation"}
      [] OTHER                  -> {}

\* _should_verify(state)
ShouldVerify(state) == Get(state, "route", "verify") = "verify"

\* the mapping given to add_conditional_edges("planner", ...)
BranchTarget(b) == IF b THEN "claim_extractor" ELSE "evaluation"

----------------------------------------------------------------------------
(* Collaborators as seen by the nodes                                      *)

MaxClaims == 2

\* abstract claim texts returned by the claim-extraction reply
ClaimTexts == {"c1", "c2"}

\* the lists _parse_claims can return (bounded)
ClaimLists == UNION {[1..n -> ClaimTexts] : n \in 0..MaxClaims}

Providers == {"groq", "google", "offline", "other"}

\* get_llm(config): the client it returns, or the error it raises.  The
\* client is returned as built: no _RetryableLLM is put around it.
GetLLM(p, key) ==
    CASE p \in {"groq", "google"} -> IF key THEN "chat" ELSE "RuntimeError"
      [] p = "offline"            -> "dummy"
      [] OTHER                    -> "ValueError"

\* what one call to the generator can do: answer, fail with a message that
\* names 429 / RESOURCE_EXHAUSTED, or fail otherwise.  The offline dummy
\* always answers.
LLMOutcomes(llm) == IF llm = "dummy" THEN {"ok"} ELSE {"ok", "quota", "error"}

ErrKind(o) == IF o = "quota" THEN "RateLimitError" ELSE "ProviderError"

\* the two routes, as the characters of the string
VerifyChars == <<"v", "e", "r", "i", "f", "y">>

DirectChars == <<"d", "i", "r", "e", "c", "t">>

\* values PlanOutput.route can hold in the planner's reply, as the
\* sequences of their characters: verify, direct, " Direct ", VERIFY, "",
\* maybe, "  " (blanks only), "DIRECT\n", directly, "di rect"
RawRoutes ==
    { VerifyChars,
      DirectChars,
      <<" ", "D", "i", "r", "e", "c", "t", " ">>,
      <<"V", "E", "R", "I", "F", "Y">>,
      <<>>,
      <<"m", "a", "y", "b", "e">>,
      <<" ", " ">>,
      <<"D", "I", "R", "E", "C", "T", "\n">>,
      <<"d", "i", "r", "e", "c", "t", "l", "y">>,
      <<"d", "i", " ", "r", "e", "c", "t">> }

\* the characters str.strip() removes at both ends
Whitespace == {" ", "\n", "\t"}

\* str.lower() on the upper-case letters of the replies above
ToLower ==
    ("D" :> "d") @@ ("I" :> "i") @@ ("R" :> "r") @@ ("E" :> "e") @@
    ("C" :> "c") @@ ("T" :> "t") @@ ("V" :> "v") @@ ("F" :> "f") @@
    ("Y" :> "y")

\* str.lower()
Lower(s) ==
    [i \in 1..Len(s) |-> IF s[i] \in DOMAIN ToLower THEN ToLower[s[i]] ELSE s[i]]

RECURSIVE LStrip(_)
LStrip(s) ==
    IF s # <<>> /\ Head(s) \in Whitespace THEN LStrip(Tail(s)) ELSE s

RECURSIVE RStrip(_)
RStrip(s) ==
    IF s # <<>> /\ s[Len(s)] \in Whitespace
    THEN RStrip(SubSeq(s, 1, Len(s) - 1)) ELSE s

\* str.strip()
Strip(s) == RStrip(LStrip(s))

\* the string of a route
RouteText(cs) == IF cs = DirectChars THEN "direct" ELSE "verify"

\* the mutant of NormRoute: an unrecognised value becomes direct
NormRoute_UnknownDirect(r) ==
    LET r1 == IF r = <<>> THEN VerifyChars ELSE r
        r2 == Lower(Strip(r1))
    IN  IF r2 \in {VerifyChars, DirectChars} THEN RouteText(r2) ELSE "direct"

\* planner_node: route = (result.route or "verify").strip().lower();
\* anything but verify/direct becomes verify
NormRoute(r) ==
    LET r1 == IF r = <<>> THEN VerifyChars ELSE r
        r2 == Lower(Strip(r1))
    IN  IF r2 \in {VerifyChars, DirectChars} THEN RouteText(r2) ELSE "verify"

\* outcome of appending one line to a JSONL file
AppendOutcomes == {"ok", "ioerror"}

----------------------------------------------------------------------------
(* Verifier: scores, fusion, aggregate (src/agents/verifier.py)            *)

Score(st, conf, ev, src) ==
    [status |-> st, confidence |-> conf, evidence |-> ev, source |-> src]

\* the relational score verifier_node uses for every claim:
\* USE_RELATIONAL_VERIFICATION is False, so the table is not consulted
RelOff == Score("uncertain", 0, "", "relational")

\* representative results of _score_vector, one per tier it can return
VecScores ==
    { Score("strong_evidence", 7800, "chunk", "vector"),
      Score("moderate_evidence", 7200, "chunk", "vector"),
      Score("weak_evidence", 5500, "chunk", "vector"),
      Score("uncertain", 4000, "chunk", "vector"),
      Score("no_evidence", 3000, "chunk", "vector") }

Max(a, b) == IF a >= b THEN a ELSE b

Min(a, b) == IF a <= b THEN a ELSE b

\* round(x, 3) for x = a / b ten-thousandths: the nearest multiple of 10.
\* When x lies exactly half-way between two of them, round() goes by the
\* binary value of x, which is above or below the half-way point depending
\* on x; `up` is the direction it takes then.
Round3(a, b, up) ==
    LET q == a \div (10 * b)
        r == a % (10 * b)
    IN  10 * (IF 2 * r > 10 * b THEN q + 1
              ELSE IF 2 * r < 10 * b THEN q
              ELSE IF up THEN q + 1 ELSE q)

\* the directions round(x, 3) can take on x = a / b
RoundOutcomes(a, b) ==
    IF 2 * (a % (10 * b)) = 10 * b THEN BOOLEAN ELSE {TRUE}

\* _fuse: the branch that downgrades a supported exact match
Downgrade(rel, vec) ==
    /\ rel.status = "supported"
    /\ vec.status = "contradicted"
    /\ vec.confidence > 7000

\* the mutant of MixedStatus: a semantic no_evidence is passed through
MixedStatus_NoEvidenceThrough(rel, vec) ==
    IF Downgrade(rel, vec) THEN "uncertain"
    ELSE IF vec.status = "no_evidence" THEN "no_evidence"
    ELSE IF rel.status = "supported" THEN "strong_evidence" ELSE "contradicted"

\* _fuse: the status when the exact-match score is not uncertain
MixedStatus(rel, vec) ==
    IF Downgrade(rel, vec) THEN "uncertain"
    ELSE IF vec.status = "no_evidence"
    THEN (IF rel.status = "supported" THEN "strong_evidence" ELSE "contradicted")
    ELSE (IF rel.status = "supported" THEN "strong_evidence" ELSE "contradicted")

\* the mutant of FusedConf2: the downgrade branch keeps the larger value
FusedConf2_AlwaysMax(rel, vec) ==
    IF rel.status # "uncertain"
    THEN 2 * Max(rel.confidence, vec.confidence)
    ELSE 2 * vec.confidence

\* _fuse: twice the value of `conf` before it is rounded
FusedConf2(rel, vec) ==
    IF rel.status # "uncertain"
    THEN (IF Downgrade(rel, vec) THEN rel.confidence + vec.confidence
          ELSE 2 * Max(rel.confidence, vec.confidence))
    ELSE 2 * vec.confidence

\* the directions round(conf, 3) can take in _fuse(rel, vec)
FuseOutcomes(rel, vec) == RoundOutcomes(FusedConf2(rel, vec), 2)

\* _fuse(rel, vec), with `up` the direction of round(conf, 3) at a tie
Fuse(rel, vec, up) ==
    IF rel.status # "uncertain"
    THEN [claim |-> "", status |-> MixedStatus(rel, vec),
          confidence |-> Round3(FusedConf2(rel, vec), 2, up),
          evidence |-> "both", source |-> "mixed"]
    ELSE [claim |-> "", status |-> vec.status,
          confidence |-> Round3(FusedConf2(rel, vec), 2, up),
          evidence |-> vec.evidence, source |-> "vector"]

RECURSIVE SumConf(_)
SumConf(vs) == IF vs = <<>> THEN 0 ELSE Head(vs).confidence + SumConf(Tail(vs))

CountIn(vs, sts) == Cardinality({i \in 1..Len(vs) : vs[i].status \in sts})

\* `avg_conf >= 0.55`: avg_conf is a binary floating-point sum divided by
\* total, so when the mean of the confidences is exactly 0.55 the computed
\* value is 0.55 or the next double below it (six confidences of 0.55 give
\* 0.5499999999999999); tieUp is the outcome of the comparison in that case.
\* Away from the tie the mean differs from 0.55 by at least 1/(1000*total)
\* and the rounding cannot change the comparison.
AvgAtLeast(sum, total, tieUp) ==
    sum > 5500 * total \/ (sum = 5500 * total /\ tieUp)

\* the outcomes `avg_conf >= 0.55` can have on the records vs at a tie
TieOutcomes(vs) ==
    IF Len(vs) >= 2 /\ SumConf(vs) = 5500 * Len(vs) THEN BOOLEAN ELSE {TRUE}

\* the mutant of Overall: one contradicted record is tolerated
Overall_TwoContradicted(total, supported, contradicted, avgOk) ==
    IF total = 0 THEN "no_claims"
    ELSE IF contradicted > 1 THEN "unreliable"
    ELSE IF 10 * supported >= 7 * total /\ avgOk THEN "reliable"
    ELSE "uncertain"

\* the mutant of Overall: no case for an empty list
Overall_NoEmptyCase(total, supported, contradicted, avgOk) ==
    IF contradicted > 0 THEN "unreliable"
    ELSE IF 10 * supported >= 7 * Max(total, 1) /\ avgOk THEN "reliable"
    ELSE "uncertain"

\* the if/elif chain that sets `overall`
Overall(total, supported, contradicted, avgOk) ==
    IF total = 0 THEN "no_claims"
    ELSE IF contradicted > 0 THEN "unreliable"
    ELSE IF 10 * supported >= 7 * Max(total, 1) /\ avgOk THEN "reliable"
    ELSE "uncertain"

\* the directions round(avg_conf, 3) can take on the records vs
AvgOutcomes(vs) ==
    IF vs = <<>> THEN {TRUE} ELSE RoundOutcomes(SumConf(vs), Len(vs))

\* the mutant of Aggregate: weak_evidence also counts as supported
Aggregate_WeakAlsoSupported(vs, tieUp, up) ==
    LET supported    == CountIn(vs, {"strong_evidence", "moderate_evidence",
                                     "weak_evidence"})
        contradicted == CountIn(vs, {"contradicted"})
        total        == Len(vs)
        sum          == SumConf(vs)
    IN  [overall_status       |-> Overall(total, supported, contradicted,
                                          AvgAtLeast(sum, total, tieUp)),
         average_confidence   |-> IF total = 0 THEN 0
                                  ELSE Round3(sum, total, up),
         supported_claims     |-> supported,
         weak_evidence_claims |-> CountIn(vs, {"weak_evidence"}),
         no_evidence_claims   |-> CountIn(vs, {"no_evidence"}),
         contradicted_claims  |-> contradicted,
         uncertain_claims     |-> CountIn(vs, {"uncertain"}),
         total_claims         |-> total]

\* the counting and the overall verdict at the end of verifier_node, with
\* tieUp the outcome of `avg_conf >= 0.55` and `up` the direction of
\* round(avg_conf, 3) at their ties
Aggregate(vs, tieUp, up) ==
    LET supported    == CountIn(vs, {"strong_evidence", "moderate_evidence"})
        contradicted == CountIn(vs, {"contradicted"})
        total        == Len(vs)
        sum          == SumConf(vs)
    IN  [overall_status       |-> Overall(total, supported, contradicted,
                                          AvgAtLeast(sum, total, tieUp)),
         average_confidence   |-> IF total = 0 THEN 0
                                  ELSE Round3(sum, total, up),
         supported_claims     |-> supported,
         weak_evidence_claims |-> CountIn(vs, {"weak_evidence"}),
         no_evidence_claims   |-> CountIn(vs, {"no_evidence"}),
         contradicted_claims  |-> contradicted,
         uncertain_claims     |-> CountIn(vs, {"uncertain"}),
         total_claims         |-> total]

\* the mutant of DirectResult: the average confidence left at 0
DirectResult_ZeroConfidence ==
    [overall_status       |-> "direct_answer",
     average_confidence   |-> 0,
     supported_claims     |-> 0,
     weak_evidence_claims |-> 0,
     no_evidence_claims   |-> 0,
     contradicted_claims  |-> 0,
     uncertain_claims     |-> 0,
     total_claims         |-> 0]

\* final_result of verifier_node on the direct route
DirectResult ==
    [overall_status       |-> "direct_answer",
     average_confidence   |-> 10000,
     supported_claims     |-> 0,
     weak_evidence_claims |-> 0,
     no_evidence_claims   |-> 0,
     contradicted_claims  |-> 0,
     uncertain_claims     |-> 0,
     total_claims         |-> 0]

\* the mutant of NeedsHuman: the confidence floor is dropped
NeedsHuman_StatusOnly(state) ==
    /\ state["final_result"] # None
    /\ state["final_result"][1].overall_status \in {"unreliable", "uncertain"}

\* human_validation_node: needs = overall in {...} or avg_conf < 0.7, with
\* the defaults of final.get(...) when final_result is absent
NeedsHuman(state) ==
    LET overall == IF state["final_result"] = None THEN "unknown"
                   ELSE state["final_result"][1].overall_status
        avg     == IF state["final_result"] = None THEN 0
                   ELSE state["final_result"][1].average_confidence
    IN  overall \in {"unreliable", "uncertain"} \/ avg < 7000

\* human_feedback for the value of `needs`
HumanFeedback(needs) == IF needs THEN "queued_for_review" ELSE "auto-approved"

\* the dict evaluation_node logs
EvalRecord(state) ==
    [question       |-> state["question"],
     plan           |-> state["plan"],
     route          |-> state["route"],
     overall_status |-> IF state["final_result"] = None THEN None
                        ELSE Some(state["final_result"][1].overall_status),
     final          |-> state["final_result"]]

\* the record human_validation_node queues
ReviewRecord(state) ==
    [question      |-> state["question"],
     llm_answer    |-> state["llm_answer"],
     verifications |-> Get(state, "verifications", <<>>),
     final_result  |-> state["final_result"]]

\* the mutant of QueueAfter: the record is queued whatever `needs` is
QueueAfter_Always(q, state) == Append(q, ReviewRecord(state))

\* human_review_queue.jsonl after human_validation_node ran on `state`
\* without error: one more line when needs is true, the same otherwise
QueueAfter(q, state) ==
    IF NeedsHuman(state) THEN Append(q, ReviewRecord(state)) ELSE q

----------------------------------------------------------------------------
(* One workflow run: _run_workflow_async -> _compiled_workflow.ainvoke     *)
(*                                                                         *)
(* The compiled graph runs in supersteps.  The nodes triggered by the      *)
(* previous superstep run concurrently, each on the state committed so     *)
(* far; a node's function returns the whole state dict it was given, with  *)
(* its own fields added.  What the tasks of a superstep returned is        *)
(* applied when all of them have finished, and the nodes they triggered    *)
(* form the next superstep.  A conditional edge is evaluated by the task   *)
(* of the node it leaves, right after that node's function returns, on     *)
(* the state that node returned.  An exception in a task ends the run.     *)

EmptyDict == [k \in Keys |-> None]

Put(d, k, v) == [d EXCEPT ![k] = Some(v)]

\* `initial` of _run_workflow_async
InitialState(p) ==
    [k \in Keys |->
        CASE k = "question"     -> Some("q")
          [] k = "llm_provider" -> Some(p)
          [] k = "llm_model"    -> Some("m")
          [] k = "metadata"     -> Some("{}")
          [] OTHER              -> None]

WfInit ==
    /\ provider \in Providers
    /\ apiKey \in BOOLEAN
    /\ chan = InitialState(provider)
    /\ pc = [n \in Nodes |-> IF n \in StartNodes THEN "ready" ELSE "idle"]
    /\ out = [n \in Nodes |-> EmptyDict]
    /\ trig = {}
    /\ step = 1
    /\ run = "running"
    /\ err = "none"
    /\ begun = {}
    /\ completed = {}
    /\ order = <<>>
    /\ execCount = [n \in Nodes |-> 0]
    /\ llmCalls = [n \in Nodes |-> 0]
    /\ evalLog = <<>>
    /\ reviewQueue = <<>>
    /\ earlyReads = {}
    /\ routeDecision = None
    /\ planReply = None

\* the task of node n starts running the node's function
StartTask(n) ==
    /\ WfOnly
    /\ run = "running"
    /\ pc[n] = "ready"
    /\ pc' = [pc EXCEPT ![n] = "running"]
    /\ begun' = begun \cup {n}
    /\ order' = Append(order, n)
    /\ execCount' = [execCount EXCEPT ![n] = @ + 1]
    /\ UNCHANGED <<provider, apiKey, chan, out, trig, step, run, err,
                   completed, llmCalls, evalLog, reviewQueue, earlyReads,
                   routeDecision,
                   planReply>>

\* node n's function returns dict d; its plain edges are written
Return(n, d) ==
    /\ pc' = [pc EXCEPT ![n] = IF n = "planner" THEN "returned" ELSE "done"]
    /\ out' = [out EXCEPT ![n] = d]
    /\ trig' = trig \cup Edges(n)
    /\ completed' = completed \cup {n}
    /\ UNCHANGED <<run, err>>

\* node n's function raises: ainvoke raises to run_workflow's caller
Raise(n, kind) ==
    /\ pc' = [pc EXCEPT ![n] = "failed"]
    /\ run' = "failed"
    /\ err' = kind
    /\ UNCHANGED <<out, trig, completed>>

\* node n reads the fields fs of the state it was given
Reads(n, fs) ==
    earlyReads' = earlyReads \cup {<<n, f>> : f \in {g \in fs : chan[g] = None}}

Called(n) == llmCalls' = [llmCalls EXCEPT ![n] = @ + 1]

\* planner_node(state)
planner_node ==
    /\ WfOnly
    /\ run = "running"
    /\ pc["planner"] = "running"
    /\ Reads("planner", {})
    /\ UNCHANGED <<provider, apiKey, chan, step, begun, order, execCount,
                   evalLog, reviewQueue, routeDecision>>
    /\ LET llm == GetLLM(Get(chan, "llm_provider", "groq"), apiKey)
       IN  IF llm \in {"RuntimeError", "ValueError"}
           THEN Raise("planner", llm) /\ UNCHANGED <<llmCalls, planReply>>
           ELSE IF llm = "dummy"
           \* the offline RunnableLambda has no with_structured_output
           THEN Raise("planner", "AttributeError")
                /\ UNCHANGED <<llmCalls, planReply>>
           ELSE \E o \in LLMOutcomes(llm) :
                  /\ Called("planner")
                  /\ IF o = "ok"
                     THEN \E r \in RawRoutes :
                            /\ planReply' = Some(r)
                            /\ Return("planner",
                                      Put(Put(chan, "plan", "plan"),
                                          "route", NormRoute(r)))
                     ELSE Raise("planner", ErrKind(o)) /\ UNCHANGED planReply

\* the conditional edge leaving planner: _should_verify on planner's result
RouteDecision ==
    /\ WfOnly
    /\ run = "running"
    /\ pc["planner"] = "returned"
    /\ LET b == ShouldVerify(out["planner"])
       IN  /\ routeDecision' = Some(b)
           /\ trig' = trig \cup {BranchTarget(b)}
    /\ pc' = [pc EXCEPT !["planner"] = "done"]
    /\ UNCHANGED <<provider, apiKey, chan, out, step, run, err, begun,
                   completed, order, execCount, llmCalls, evalLog,
                   reviewQueue, earlyReads, planReply>>

\* primary_llm_node(state)
primary_llm_node ==
    /\ WfOnly
    /\ run = "running"
    /\ pc["primary_llm"] = "running"
    /\ Reads("primary_llm", {})
    /\ UNCHANGED <<provider, apiKey, chan, step, begun, order, execCount,
                   evalLog, reviewQueue, routeDecision,
                   planReply>>
    /\ LET llm == GetLLM(Get(chan, "llm_provider", "groq"), apiKey)
       IN  IF llm \in {"RuntimeError", "ValueError"}
           THEN Raise("primary_llm", llm) /\ UNCHANGED llmCalls
           ELSE \E o \in LLMOutcomes(llm) :
                  /\ Called("primary_llm")
                  /\ IF o = "ok"
                     THEN Return("primary_llm", Put(chan, "llm_answer", "answer"))
                     ELSE Raise("primary_llm", ErrKind(o))

\* claim_extractor_node(state)
claim_extractor_node ==
    /\ WfOnly
    /\ run = "running"
    /\ pc["claim_extractor"] = "running"
    /\ UNCHANGED <<provider, apiKey, chan, step, begun, order, execCount,
                   evalLog, reviewQueue, routeDecision,
                   planReply>>
    /\ IF Get(chan, "route", "verify") = "direct"
       THEN /\ Reads("claim_extractor", {"route"})
            /\ Return("claim_extractor", Put(chan, "claims", <<>>))
            /\ UNCHANGED llmCalls
       ELSE LET llm == GetLLM(Get(chan, "llm_provider", "groq"), apiKey)
            IN  IF llm \in {"RuntimeError", "ValueError"}
                THEN /\ Reads("claim_extractor", {"route"})
                     /\ Raise("claim_extractor", llm)
                     /\ UNCHANGED llmCalls
                ELSE /\ Reads("claim_extractor", {"route", "llm_answer"})
                     /\ IF chan["llm_answer"] = None
                        \* state["llm_answer"]
                        THEN Raise("claim_extractor", "KeyError")
                             /\ UNCHANGED llmCalls
                        ELSE \E o \in LLMOutcomes(llm) :
                               /\ Called("claim_extractor")
                               /\ IF o = "ok"
                                  THEN \E cs \in ClaimLists :
                                         Return("claim_extractor",
                                                Put(chan, "claims", cs))
                                  ELSE Raise("claim_extractor", ErrKind(o))

\* the records verifier_node builds for claims cs when _score_vector
\* returns sc[i] for claim i
Verifications(cs, sc) ==
    [i \in 1..Len(cs) |-> [Fuse(RelOff, sc[i], TRUE) EXCEPT !.claim = cs[i]]]

\* what the store calls of verifier_node can do on claims cs:
\* IPCBNSVectorStore() only records its directory and embeddings, the
\* store is opened (and may fail to open) by the first vec.query, and
\* there is one query per claim
VerifierOutcomes(cs) == IF cs = <<>> THEN {"ok"} ELSE {"ok", "storeerror"}

\* verifier_node(state)
verifier_node ==
    /\ WfOnly
    /\ run = "running"
    /\ pc["verifier"] = "running"
    /\ UNCHANGED <<provider, apiKey, chan, step, begun, order, execCount,
                   llmCalls, evalLog, reviewQueue, routeDecision,
                   planReply>>
    /\ IF Get(chan, "route", "verify") = "direct"
       THEN /\ Reads("verifier", {"route"})
            /\ Return("verifier",
                      Put(Put(chan, "verifications", <<>>),
                          "final_result", DirectResult))
       ELSE /\ Reads("verifier", {"route", "claims"})
            /\ LET cs == Get(chan, "claims", <<>>)
               IN  \E res \in VerifierOutcomes(cs) :
                     IF res = "ok"
                     THEN \E sc \in [1..Len(cs) -> VecScores] :
                            LET vs == Verifications(cs, sc)
                            IN  \E tieUp \in TieOutcomes(vs),
                                   up \in AvgOutcomes(vs) :
                                  Return("verifier",
                                         Put(Put(chan, "verifications", vs),
                                             "final_result",
                                             Aggregate(vs, tieUp, up)))
                     \* vec.query raises
                     ELSE Raise("verifier", "StoreError")

\* human_validation_node(state)
human_validation_node ==
    /\ WfOnly
    /\ run = "running"
    /\ pc["human_validation"] = "running"
    /\ UNCHANGED <<provider, apiKey, chan, step, begun, order, execCount,
                   llmCalls, evalLog, routeDecision,
                   planReply>>
    /\ IF ~NeedsHuman(chan)
       THEN /\ Reads("human_validation", {"final_result"})
            /\ Return("human_validation",
                      Put(Put(chan, "needs_human", FALSE),
                          "human_feedback", HumanFeedback(FALSE)))
            /\ reviewQueue' = QueueAfter(reviewQueue, chan)
       ELSE /\ Reads("human_validation",
                     {"final_result", "llm_answer", "verifications"})
            /\ \E w \in AppendOutcomes :
                 IF w = "ok"
                 THEN /\ reviewQueue' = QueueAfter(reviewQueue, chan)
                      /\ Return("human_validation",
                                Put(Put(chan, "needs_human", TRUE),
                                    "human_feedback", HumanFeedback(TRUE)))
                 ELSE /\ Raise("human_validation", "IOError")
                      /\ UNCHANGED reviewQueue

\* evaluation_node(state)
evaluation_node ==
    /\ WfOnly
    /\ run = "running"
    /\ pc["evaluation"] = "running"
    /\ Reads("evaluation", {"plan", "route", "final_result"})
    /\ UNCHANGED <<provider, apiKey, chan, step, begun, order, execCount,
                   llmCalls, reviewQueue, routeDecision,
                   planReply>>
    /\ \E w \in AppendOutcomes :
         IF w = "ok"
         THEN /\ evalLog' = Append(evalLog, EvalRecord(chan))
              /\ Return("evaluation", Put(chan, "evaluation", EvalRecord(chan)))
         ELSE /\ Raise("evaluation", "IOError")
              /\ UNCHANGED evalLog

\* the tasks of the current superstep
Scheduled == {n \in Nodes : pc[n] # "idle"}

\* the keys the dict returned by task n carries
Written(n) == {k \in Keys : out[n][k] # None}

\* two tasks of one superstep returned a value for the same key
ConcurrentUpdate ==
    \E a, b \in Scheduled : a # b /\ Written(a) \cap Written(b) # {}

\* the mutant of Merged: a key no task changed is dropped
Merged_DropsUnchanged ==
    [k \in Keys |->
        LET changed == {out[n][k] : n \in {m \in Scheduled :
                            out[m][k] # None /\ out[m][k] # chan[k]}}
        IN  IF changed = {} THEN None ELSE CHOOSE v \in changed : TRUE]

\* the state after the returned dicts are applied: a key takes the value a
\* task changed it to, and keeps its value when no task changed it
Merged ==
    [k \in Keys |->
        LET changed == {out[n][k] : n \in {m \in Scheduled :
                            out[m][k] # None /\ out[m][k] # chan[k]}}
        IN  IF changed = {} THEN chan[k] ELSE CHOOSE v \in changed : TRUE]

\* end of a superstep: the returned dicts are applied and the triggered
\* nodes become the next superstep; with none triggered the run is done
\* and ainvoke returns the state
ApplyWrites ==
    /\ WfOnly
    /\ run = "running"
    /\ Scheduled # {}
    /\ \A n \in Scheduled : pc[n] = "done"
    /\ chan' = Merged
    /\ pc' = [n \in Nodes |-> IF n \in trig THEN "ready" ELSE "idle"]
    /\ out' = [n \in Nodes |-> EmptyDict]
    /\ trig' = {}
    /\ step' = step + 1
    /\ run' = IF trig = {} THEN "done" ELSE "running"
    /\ UNCHANGED <<provider, apiKey, err, begun, completed, order, execCount,
                   llmCalls, evalLog, reviewQueue, earlyReads, routeDecision,
                   planReply>>

\* end of a superstep in which two tasks returned the same key: every key
\* of VerificationState is a plain last-value key (no reducer is declared),
\* and the engine may refuse two values for one in a single step
\* (InvalidUpdateError); src/ pins no engine version, so both outcomes of
\* such a step are kept
RejectConcurrentUpdate ==
    /\ WfOnly
    /\ run = "running"
    /\ Scheduled # {}
    /\ \A n \in Scheduled : pc[n] = "done"
    /\ ConcurrentUpdate
    /\ run' = "failed"
    /\ err' = "InvalidUpdateError"
    /\ UNCHANGED <<provider, apiKey, chan, pc, out, trig, step, begun,
                   completed, order, execCount, llmCalls, evalLog,
                   reviewQueue, earlyReads, routeDecision,
                   planReply>>

\* run_workflow(question, ...): what asyncio.run(_run_workflow_async(...))
\* gives its caller -- the final state ainvoke returned, or nothing when
\* ainvoke raised
RunWorkflowReturns == IF run = "done" THEN Some(chan) ELSE None

\* the exception run_workflow lets through to its caller (it has no except
\* clause for the workflow's errors)
RunWorkflowRaises == IF run = "failed" THEN Some(err) ELSE None


----------------------------------------------------------------------------
(* throttle_before_api_call (src/config.py), called by concurrent threads: *)
(* the tasks of one superstep and the runs of one process share the        *)
(* module-level _last_api_call_time.  One action per statement.            *)

THROTTLE_SECONDS == 2

NumCallers == 2

CallsPerCaller == 2

ClockStart == 1

MaxTime == 6

Callers == 1..NumCallers

\* elapsed = time.monotonic() - _last_api_call_time
ThReadElapsed(t) ==
    /\ ThOnly
    /\ tpc[t] = "idle"
    /\ tCalls[t] < CallsPerCaller
    /\ tElapsed' = [tElapsed EXCEPT ![t] = now - lastCall]
    /\ tpc' = [tpc EXCEPT ![t] = "check"]
    /\ UNCHANGED <<now, lastCall, tWake, tCalls, returns>>

\* the condition of the if statement
MustSleep(elapsed, last) == elapsed < THROTTLE_SECONDS /\ last > 0

\* if elapsed < THROTTLE_SECONDS and _last_api_call_time > 0:
\*     time.sleep(THROTTLE_SECONDS - elapsed)
ThCheck(t) ==
    /\ ThOnly
    /\ tpc[t] = "check"
    /\ IF MustSleep(tElapsed[t], lastCall)
       THEN /\ tWake' = [tWake EXCEPT ![t] = now + (THROTTLE_SECONDS - tElapsed[t])]
            /\ tpc' = [tpc EXCEPT ![t] = "sleeping"]
       ELSE /\ tpc' = [tpc EXCEPT ![t] = "stamp"]
            /\ UNCHANGED tWake
    /\ UNCHANGED <<now, lastCall, tElapsed, tCalls, returns>>

\* time.sleep returns once the requested time has passed
ThWake(t) ==
    /\ ThOnly
    /\ tpc[t] = "sleeping"
    /\ now >= tWake[t]
    /\ tpc' = [tpc EXCEPT ![t] = "stamp"]
    /\ UNCHANGED <<now, lastCall, tElapsed, tWake, tCalls, returns>>

\* _last_api_call_time = time.monotonic(); the call returns
ThStamp(t) ==
    /\ ThOnly
    /\ tpc[t] = "stamp"
    /\ lastCall' = now
    /\ returns' = Append(returns, now)
    /\ tCalls' = [tCalls EXCEPT ![t] = @ + 1]
    /\ tpc' = [tpc EXCEPT ![t] = "idle"]
    /\ UNCHANGED <<now, tElapsed, tWake>>

\* one second passes
Tick ==
    /\ ThOnly
    /\ now < MaxTime
    /\ now' = now + 1
    /\ UNCHANGED <<lastCall, tpc, tElapsed, tWake, tCalls, returns>>

ThInit ==
    /\ now = ClockStart
    /\ lastCall = 0
    /\ tpc = [t \in Callers |-> "idle"]
    /\ tElapsed = [t \in Callers |-> 0]
    /\ tWake = [t \in Callers |-> 0]
    /\ tCalls = [t \in Callers |-> 0]
    /\ returns = <<>>

----------------------------------------------------------------------------
(* StoreManager() called by concurrent threads (src/rag/store_manager.py): *)
(* type.__call__ runs __new__ and then __init__ on what it returned.       *)
(* One action per statement; `with cls._lock` is an acquire and a release. *)

NumThreads == 2

CallsPerThread == 2

Threads == 1..NumThreads

\* an object as super().__new__(cls) leaves it: no attribute is set yet
FreshObject == [initialized |-> None, relational |-> FALSE, vector |-> "unset"]

\* IPCBNSRelationalStore(path) and IPCBNSVectorStore().load_or_build()
\* either succeed or raise (build_from_json raises FileNotFoundError)
BuildOutcomes == {"ok", "raise"}

\* the object is the ready instance: _initialized is True, both stores set
Ready(o) == o.initialized = Some(TRUE) /\ o.relational /\ o.vector = "ready"

\* the call of thread t ends: it returns self, or raises kind
Finish(t, kind, o) ==
    /\ results' = [results EXCEPT ![t] =
                      Append(@, [kind |-> kind, inst |-> self[t],
                                 ready |-> Ready(o)])]
    /\ sCalls' = [sCalls EXCEPT ![t] = @ + 1]
    /\ spc' = [spc EXCEPT ![t] = "idle"]

\* a thread calls StoreManager()
SmCall(t) ==
    /\ SmOnly
    /\ spc[t] = "idle"
    /\ sCalls[t] < CallsPerThread
    /\ spc' = [spc EXCEPT ![t] = "new_check1"]
    /\ UNCHANGED <<instance, objs, lock, self, sCalls, results, bodyRuns,
                   buildsDone, buildsFailed, recheckHits>>

\* __new__: if cls._instance is None:
NewCheck1(t) ==
    /\ SmOnly
    /\ spc[t] = "new_check1"
    /\ spc' = [spc EXCEPT ![t] = IF instance = 0 THEN "new_lock" ELSE "new_return"]
    /\ UNCHANGED <<instance, objs, lock, self, sCalls, results, bodyRuns,
                   buildsDone, buildsFailed, recheckHits>>

\* __new__: with cls._lock:
NewLock(t) ==
    /\ SmOnly
    /\ spc[t] = "new_lock"
    /\ lock = 0
    /\ lock' = t
    /\ spc' = [spc EXCEPT ![t] = "new_check2"]
    /\ UNCHANGED <<instance, objs, self, sCalls, results, bodyRuns,
                   buildsDone, buildsFailed, recheckHits>>

\* __new__: the second `if cls._instance is None` (under the lock)
NewCheck2(t) ==
    /\ SmOnly
    /\ spc[t] = "new_check2"
    /\ IF instance = 0
       THEN /\ spc' = [spc EXCEPT ![t] = "new_create"]
            /\ UNCHANGED lock
       ELSE /\ spc' = [spc EXCEPT ![t] = "new_return"]
            /\ lock' = 0
    /\ UNCHANGED <<instance, objs, self, sCalls, results, bodyRuns,
                   buildsDone, buildsFailed, recheckHits>>

\* __new__: cls._instance = super().__new__(cls)
NewCreate(t) ==
    /\ SmOnly
    /\ spc[t] = "new_create"
    /\ objs' = Append(objs, FreshObject)
    /\ instance' = Len(objs) + 1
    /\ spc' = [spc EXCEPT ![t] = "new_setflag"]
    /\ UNCHANGED <<lock, self, sCalls, results, bodyRuns, buildsDone,
                   buildsFailed, recheckHits>>

\* __new__: cls._instance._initialized = False, and the lock is released
NewSetFlag(t) ==
    /\ SmOnly
    /\ spc[t] = "new_setflag"
    /\ objs' = [objs EXCEPT ![instance].initialized = Some(FALSE)]
    /\ lock' = 0
    /\ spc' = [spc EXCEPT ![t] = "new_return"]
    /\ UNCHANGED <<instance, self, sCalls, results, bodyRuns, buildsDone,
                   buildsFailed, recheckHits>>

\* __new__: return cls._instance; __init__ is then called on it
NewReturn(t) ==
    /\ SmOnly
    /\ spc[t] = "new_return"
    /\ self' = [self EXCEPT ![t] = instance]
    /\ spc' = [spc EXCEPT ![t] = "init_check1"]
    /\ UNCHANGED <<instance, objs, lock, sCalls, results, bodyRuns,
                   buildsDone, buildsFailed, recheckHits>>

\* __init__: if self._initialized: return   (AttributeError when the
\* attribute has not been set yet)
InitCheck1(t) ==
    /\ SmOnly
    /\ spc[t] = "init_check1"
    /\ LET o == objs[self[t]]
       IN  IF o.initialized = None
           THEN Finish(t, "AttributeError", o)
           ELSE IF o.initialized = Some(TRUE)
           THEN Finish(t, "ok", o)
           ELSE /\ spc' = [spc EXCEPT ![t] = "init_lock"]
                /\ UNCHANGED <<sCalls, results>>
    /\ UNCHANGED <<instance, objs, lock, self, bodyRuns, buildsDone,
                   buildsFailed, recheckHits>>

\* __init__: with self._lock:
InitLock(t) ==
    /\ SmOnly
    /\ spc[t] = "init_lock"
    /\ lock = 0
    /\ lock' = t
    /\ spc' = [spc EXCEPT ![t] = "init_check2"]
    /\ UNCHANGED <<instance, objs, self, sCalls, results, bodyRuns,
                   buildsDone, buildsFailed, recheckHits>>

\* the mutant of InitializedUnderLock: the check under the lock is dropped
InitializedUnderLock_Dropped(o) == FALSE

\* __init__: the condition of the second `if self._initialized`
InitializedUnderLock(o) == o.initialized = Some(TRUE)

\* __init__: the second `if self._initialized: return` (under the lock)
InitCheck2(t) ==
    /\ SmOnly
    /\ spc[t] = "init_check2"
    /\ IF InitializedUnderLock(objs[self[t]])
       THEN /\ lock' = 0
            /\ recheckHits' = recheckHits + 1
            /\ Finish(t, "ok", objs[self[t]])
            /\ UNCHANGED bodyRuns
       ELSE /\ bodyRuns' = bodyRuns + 1
            /\ spc' = [spc EXCEPT ![t] = "init_rel"]
            /\ UNCHANGED <<lock, recheckHits, sCalls, results>>
    /\ UNCHANGED <<instance, objs, self, buildsDone, buildsFailed>>

\* __init__: self._relational = IPCBNSRelationalStore(paths.SQLITE_DB)
InitRelational(t) ==
    /\ SmOnly
    /\ spc[t] = "init_rel"
    /\ \E r \in BuildOutcomes :
         IF r = "ok"
         THEN /\ objs' = [objs EXCEPT ![self[t]].relational = TRUE]
              /\ spc' = [spc EXCEPT ![t] = "init_vec"]
              /\ UNCHANGED <<lock, buildsFailed, sCalls, results>>
         ELSE /\ lock' = 0
              /\ buildsFailed' = buildsFailed + 1
              /\ Finish(t, "BuildError", objs[self[t]])
              /\ UNCHANGED objs
    /\ UNCHANGED <<instance, self, bodyRuns, buildsDone, recheckHits>>

\* __init__: self._vector = IPCBNSVectorStore(); self._vector.load_or_build()
InitVector(t) ==
    /\ SmOnly
    /\ spc[t] = "init_vec"
    /\ \E r \in BuildOutcomes :
         IF r = "ok"
         THEN /\ objs' = [objs EXCEPT ![self[t]].vector = "ready"]
              /\ spc' = [spc EXCEPT ![t] = "init_flag"]
              /\ UNCHANGED <<lock, buildsFailed, sCalls, results>>
         ELSE /\ objs' = [objs EXCEPT ![self[t]].vector = "unloaded"]
              /\ lock' = 0
              /\ buildsFailed' = buildsFailed + 1
              /\ Finish(t, "BuildError", objs'[self[t]])
    /\ UNCHANGED <<instance, self, bodyRuns, buildsDone, recheckHits>>

\* __init__: self._initialized = True, and the lock is released
InitFlag(t) ==
    /\ SmOnly
    /\ spc[t] = "init_flag"
    /\ objs' = [objs EXCEPT ![self[t]].initialized = Some(TRUE)]
    /\ lock' = 0
    /\ buildsDone' = buildsDone + 1
    /\ Finish(t, "ok", objs'[self[t]])
    /\ UNCHANGED <<instance, self, bodyRuns, buildsFailed, recheckHits>>

SmInit ==
    /\ instance = 0
    /\ objs = <<>>
    /\ lock = 0
    /\ spc = [t \in Threads |-> "idle"]
    /\ self = [t \in Threads |-> 0]
    /\ sCalls = [t \in Threads |-> 0]
    /\ results = [t \in Threads |-> <<>>]
    /\ bodyRuns = 0
    /\ buildsDone = 0
    /\ buildsFailed = 0
    /\ recheckHits = 0

----------------------------------------------------------------------------
(* _invoke_with_retry(fn, max_retries) (src/config.py)                     *)

MAX_RETRIES == 4

\* delays (seconds) a quota message can suggest in "retry in <d>s"
SuggestedDelays == {0, 50, 51, 115, 116}

\* an exception raised by fn(), by what the code reads from str(e)
Errors ==
    [ok : {FALSE}, has429 : BOOLEAN, hasResourceExhausted : BOOLEAN,
     retryIn : {None} \cup {Some(d) : d \in SuggestedDelays}]

\* a value returned by fn()
Values == [ok : {TRUE}, val : {"a", "b"}]

FnOutcomes == Values \cup Errors

\* the mutant of IsRateLimit: every error is taken for a quota error
IsRateLimit_Always(e) == TRUE

\* is_rate_limit = "429" in msg or "RESOURCE_EXHAUSTED" in msg
IsRateLimit(e) == e.has429 \/ e.hasResourceExhausted

\* the mutant of LastAttempt: off by one
LastAttempt_OffByOne(attempt, max) == attempt >= max

\* if attempt >= max_retries - 1: raise
LastAttempt(attempt, max) == attempt >= max - 1

\* the mutant of Backoff: no cap at 120 s
Backoff_NoCap(e) ==
    IF e.retryIn = None THEN 55
    ELSE Max(55, e.retryIn[1] + 5)

\* wait = 55.0; if match: wait = min(120.0, max(55.0, d + 5.0))
Backoff(e) ==
    IF e.retryIn = None THEN 55
    ELSE Min(120, Max(55, e.retryIn[1] + 5))

\* one pass of the loop body: fn() is called and its outcome handled
RetryAttempt ==
    /\ RtOnly
    /\ rPc = "try"
    /\ \E o \in FnOutcomes :
         /\ rOutcomes' = Append(rOutcomes, o)
         /\ IF o.ok
            THEN /\ rPc' = "returned"
                 /\ rResult' = Some(o.val)
                 /\ UNCHANGED <<rLastError, rRaised, rSleeps>>
            ELSE /\ rLastError' = Some(o)
                 /\ UNCHANGED rResult
                 /\ IF ~IsRateLimit(o) \/ LastAttempt(rAttempt, rMax)
                    THEN /\ rPc' = "raised"
                         /\ rRaised' = Some(o)
                         /\ UNCHANGED rSleeps
                    ELSE /\ rPc' = "sleeping"
                         /\ rSleeps' = Append(rSleeps, Backoff(o))
                         /\ UNCHANGED rRaised
    /\ UNCHANGED <<rMax, rAttempt>>

\* time.sleep(wait) returns and the loop goes on; past the last pass the
\* function ends with `raise last_error`
RetryWake ==
    /\ RtOnly
    /\ rPc = "sleeping"
    /\ rAttempt' = rAttempt + 1
    /\ IF rAttempt + 1 < rMax
       THEN rPc' = "try" /\ UNCHANGED rRaised
       ELSE rPc' = "raised" /\ rRaised' = rLastError
    /\ UNCHANGED <<rMax, rOutcomes, rSleeps, rLastError, rResult>>

RtInit ==
    /\ rMax \in 1..MAX_RETRIES
    /\ rPc = "try"
    /\ rAttempt = 0
    /\ rOutcomes = <<>>
    /\ rSleeps = <<>>
    /\ rLastError = None
    /\ rRaised = None
    /\ rResult = None

----------------------------------------------------------------------------
(* Concurrent runs in one process: run_workflow called from several        *)
(* threads.  Each call goes through _run_workflow_async -- the check and   *)
(* lazy creation of _compiled_workflow, the `initial` dict, ainvoke -- and *)
(* then through the nodes.  The schedule of the nodes inside one run is    *)
(* the subject of Spec; here a run takes its nodes one after the other and *)
(* the runs interleave freely.  A value in a RunState is tagged with the   *)
(* run whose input or whose step put it there.                             *)

NumRuns == 2

Runs == 1..NumRuns

\* the keys of VerificationState followed here
MKeys == {"question", "plan", "route", "llm_answer", "claims",
          "final_result", "human_feedback", "evaluation"}

\* the objects of the process that outlive one call: the module globals
\* _compiled_workflow (workflow.py) and _last_api_call_time (config.py),
\* and the two files the nodes append to
Globals == {"_compiled_workflow", "_last_api_call_time", "eval_log",
            "human_review_queue"}

Tagged(v, r) == [v |-> v, of |-> r]

\* the mutant of StateOf: every call works on one and the same state
StateOf_Shared(r) == 1

\* the state a call works on: `initial` is a local of the call and ainvoke
\* keeps the state of a call in channels of its own
StateOf(r) == r

\* `initial` of the call of run r
MInitial(r) ==
    [k \in MKeys |-> IF k = "question" THEN Some(Tagged("q", r)) ELSE None]

\* the nodes in the order a run takes them
NextNode(n) ==
    CASE n = "planner"          -> "primary_llm"
      [] n = "primary_llm"      -> "claim_extractor"
      [] n = "claim_extractor"  -> "verifier"
      [] n = "verifier"         -> "human_validation"
      [] n = "human_validation" -> "evaluation"
      [] n = "evaluation"       -> "return"

Touch(os, r) == mAccess' = mAccess \cup {<<o[1], o[2], r>> : o \in os}

\* if _compiled_workflow is None:
MrCheck(r) ==
    /\ MrOnly
    /\ mPc[r] = "check"
    /\ mPc' = [mPc EXCEPT ![r] = IF compiled = 0 THEN "create" ELSE "invoke"]
    /\ Touch({<<"_compiled_workflow", 0>>}, r)
    /\ UNCHANGED <<compiled, mGraphs, mGraph, mState, mResult, mLog, mQueue>>

\* _compiled_workflow = create_workflow()
MrCreate(r) ==
    /\ MrOnly
    /\ mPc[r] = "create"
    /\ mGraphs' = mGraphs + 1
    /\ compiled' = mGraphs + 1
    /\ mPc' = [mPc EXCEPT ![r] = "invoke"]
    /\ Touch({<<"_compiled_workflow", 0>>}, r)
    /\ UNCHANGED <<mGraph, mState, mResult, mLog, mQueue>>

\* initial = {...}; _compiled_workflow.ainvoke(initial)
MrInvoke(r) ==
    /\ MrOnly
    /\ mPc[r] = "invoke"
    /\ mGraph' = [mGraph EXCEPT ![r] = compiled]
    /\ mState' = [mState EXCEPT ![StateOf(r)] = MInitial(r)]
    /\ mPc' = [mPc EXCEPT ![r] = "planner"]
    /\ Touch({<<"_compiled_workflow", 0>>, <<"state", StateOf(r)>>}, r)
    /\ UNCHANGED <<compiled, mGraphs, mResult, mLog, mQueue>>

\* the fields node n of run r adds to the state st it was given, for the
\* reply `route` of the planner and the verdict `needs` of the gate
MrWrites(n, st, r, route, needs) ==
    CASE n = "planner" ->
           [st EXCEPT !["plan"] = Some(Tagged("plan", r)),
                      !["route"] = Some(Tagged(route, r))]
      [] n = "primary_llm" ->
           [st EXCEPT !["llm_answer"] = Some(Tagged("answer", r))]
      [] n = "claim_extractor" ->
           [st EXCEPT !["claims"] = Some(Tagged("claims", r))]
      [] n = "verifier" ->
           [st EXCEPT !["final_result"] = Some(Tagged("final", r))]
      [] n = "human_validation" ->
           [st EXCEPT !["human_feedback"] =
               Some(Tagged(IF needs THEN "queued_for_review"
                           ELSE "auto-approved", r))]
      [] n = "evaluation" ->
           [st EXCEPT !["evaluation"] = Some(Tagged("log", r))]

\* whether node n calls throttle_before_api_call on a state with this route
MrThrottles(n, st) ==
    \/ n \in {"planner", "primary_llm"}
    \/ /\ n \in {"claim_extractor", "verifier"}
       /\ Get(st, "route", Tagged("verify", 0)).v # "direct"

\* run r's next node runs on the state of r's call
MrNode(r) ==
    /\ MrOnly
    /\ mPc[r] \in Nodes
    /\ LET n   == mPc[r]
           sid == StateOf(r)
           st  == mState[sid]
       IN  \E route \in {"verify", "direct"}, needs \in BOOLEAN :
             /\ n # "planner" => route = "verify"
             /\ n # "human_validation" => needs = FALSE
             /\ (n = "human_validation" /\ needs)
                    => Get(st, "route", Tagged("verify", 0)).v # "direct"
             /\ mState' = [mState EXCEPT ![sid] = MrWrites(n, st, r, route, needs)]
             /\ mQueue' = IF needs THEN Append(mQueue, r) ELSE mQueue
             /\ mLog' = IF n = "evaluation" THEN Append(mLog, r) ELSE mLog
             /\ Touch({<<"state", sid>>}
                      \cup (IF MrThrottles(n, st)
                            THEN {<<"_last_api_call_time", 0>>} ELSE {})
                      \cup (IF needs THEN {<<"human_review_queue", 0>>} ELSE {})
                      \cup (IF n = "evaluation" THEN {<<"eval_log", 0>>} ELSE {}),
                      r)
             /\ mPc' = [mPc EXCEPT ![r] = NextNode(n)]
    /\ UNCHANGED <<compiled, mGraphs, mGraph, mResult>>

\* return final_state
MrReturn(r) ==
    /\ MrOnly
    /\ mPc[r] = "return"
    /\ mResult' = [mResult EXCEPT ![r] = Some(mState[StateOf(r)])]
    /\ mPc' = [mPc EXCEPT ![r] = "done"]
    /\ Touch({<<"state", StateOf(r)>>}, r)
    /\ UNCHANGED <<compiled, mGraphs, mGraph, mState, mLog, mQueue>>

MrInit ==
    /\ compiled = 0
    /\ mGraphs = 0
    /\ mPc = [r \in Runs |-> "check"]
    /\ mGraph = [r \in Runs |-> 0]
    /\ mState = [r \in Runs |-> [k \in MKeys |-> None]]
    /\ mResult = [r \in Runs |-> None]
    /\ mAccess = {}
    /\ mLog = <<>>
    /\ mQueue = <<>>

----------------------------------------------------------------------------
(* The aggregate of verifier_node as a function of the list of fused       *)
(* records.  It reads the list only through its length, the number of      *)
(* records of each status and the sum of the confidences, so the lists are *)
(* built in one order of the records.                                      *)

MaxRecords == 5

FusedStatuses == {"strong_evidence", "moderate_evidence", "weak_evidence",
                  "no_evidence", "contradicted", "uncertain"}

\* confidences below, at and above the 0.55 floor
AggConfs == {5000, 5500, 9000}

\* VerificationRecord values
FusedRecords ==
    [claim : {"c"}, status : FusedStatuses, confidence : AggConfs,
     evidence : {"e"}, source : {"vector"}]

StatusRank(st) ==
    CASE st = "strong_evidence"   -> 1
      [] st = "moderate_evidence" -> 2
      [] st = "weak_evidence"     -> 3
      [] st = "no_evidence"       -> 4
      [] st = "contradicted"      -> 5
      [] st = "uncertain"         -> 6

Rank(rec) == 10001 * StatusRank(rec.status) + rec.confidence

\* verifications.append(fused)
AggAdd ==
    /\ AgOnly
    /\ aggOut = None
    /\ Len(aggIn) < MaxRecords
    /\ \E rec \in FusedRecords :
         /\ aggIn # <<>> => Rank(aggIn[Len(aggIn)]) <= Rank(rec)
         /\ aggIn' = Append(aggIn, rec)
    /\ UNCHANGED aggOut

\* the counts, avg_conf, overall and state["final_result"]
AggCompute ==
    /\ AgOnly
    /\ aggOut = None
    /\ \E tieUp \in TieOutcomes(aggIn), up \in AvgOutcomes(aggIn) :
         aggOut' = Some(Aggregate(aggIn, tieUp, up))
    /\ UNCHANGED aggIn

AgInit ==
    /\ aggIn = <<>>
    /\ aggOut = None

----------------------------------------------------------------------------
(* human_validation_node as a function of state["final_result"]            *)

GateStatuses == {"reliable", "uncertain", "unreliable", "no_claims",
                 "direct_answer"}

\* average confidences around the 0.7 floor
GateConfs == {0, 3000, 5500, 6900, 6990, 7000, 7010, 9500, 10000}

\* the final_result values the node is run on; None is a state without one
GateInputs ==
    {None} \cup
    {Some([DirectResult EXCEPT !.overall_status = st,
                               !.average_confidence = c]) :
        st \in GateStatuses, c \in GateConfs}

\* the state handed to the node
GateState == [InitialState("groq") EXCEPT !["final_result"] = gFinal]

\* human_validation_node(state): what it leaves in the state and in the
\* queue (started empty), or the error it raises
GateStep ==
    /\ GtOnly
    /\ gOut = None
    /\ \E w \in AppendOutcomes :
         /\ w = "ioerror" => NeedsHuman(GateState)
         /\ gOut' = Some(IF w = "ok"
                         THEN [raised         |-> FALSE,
                               needs_human    |-> NeedsHuman(GateState),
                               human_feedback |-> HumanFeedback(NeedsHuman(GateState)),
                               queued         |-> Len(QueueAfter(<<>>, GateState))]
                         ELSE [raised         |-> TRUE,
                               needs_human    |-> TRUE,
                               human_feedback |-> "",
                               queued         |-> 0])
    /\ UNCHANGED gFinal

GtInit ==
    /\ gFinal \in GateInputs
    /\ gOut = None

----------------------------------------------------------------------------
(* _fuse(rel, vec) as a function of the two scores                         *)

\* the statuses _score_relational returns
RelStatuses == {"supported", "contradicted", "uncertain"}

RelScores ==
    {Score(st, c, "table", "relational") :
        st \in RelStatuses, c \in {0, 4000, 7000, 9000}}

\* semantic scores of every status, around the 0.7 of the downgrade test
FuseVecScores ==
    {Score(st, c, "chunk", "vector") :
        st \in FusedStatuses, c \in {0, 3004, 7000, 7001, 7015, 9500}}

\* fused = _fuse(rel_score, vec_score)
FuseStep ==
    /\ FuOnly
    /\ fOut = None
    /\ \E up \in FuseOutcomes(fRel, fVec) :
         fOut' = Some(Fuse(fRel, fVec, up))
    /\ UNCHANGED <<fRel, fVec>>

FuInit ==
    /\ fRel \in RelScores
    /\ fVec \in FuseVecScores
    /\ fOut = None

----------------------------------------------------------------------------
(* IPCBNSRelationalStore (src/rag/vectorstore.py): the table              *)
(* ipcbns_mapping has the primary key ipc_section.  The rows are kept in   *)
(* the order the table holds them, oldest first.                           *)
(***************************************************************************)

MaxWrites == 3

TblKeys == {"302", "376"}

TblBns == {"101", "64"}

TblNotes == {"", "renumbered"}

\* a key upsert_mapping is never called with
UnwrittenKey == "999"

Row(ipc, bns, notes) ==
    [ipc_section |-> ipc, bns_section |-> bns, notes |-> notes]

\* INSERT without OR REPLACE semantics: the old row of the key stays
UpsertMapping_InsertOnly(rows, ipc, bns, notes) ==
    Append(rows, Row(ipc, bns, notes))

\* INSERT OR REPLACE: the row that holds the key is deleted, the new row is
\* inserted
UpsertMapping(rows, ipc, bns, notes) ==
    Append(SelectSeq(rows, LAMBDA r : r.ipc_section # ipc),
           Row(ipc, bns, notes))

\* select ... where ipc_section == ipc, fetchone: the first such row as a
\* dict, or None
GetByIpc(rows, ipc) ==
    LET hits == SelectSeq(rows, LAMBDA r : r.ipc_section = ipc)
    IN  IF hits = <<>> THEN None ELSE Some(hits[1])

TblUpsert ==
    /\ Len(tHist) < MaxWrites
    /\ \E ipc \in TblKeys, bns \in TblBns, notes \in TblNotes :
         /\ tRows' = UpsertMapping(tRows, ipc, bns, notes)
         /\ tHist' = Append(tHist, Row(ipc, bns, notes))
    /\ tGot' = None
    /\ TbOnly

TblGet ==
    /\ \E k \in TblKeys \cup {UnwrittenKey} :
         tGot' = Some([key |-> k, row |-> GetByIpc(tRows, k)])
    /\ UNCHANGED <<tRows, tHist>>
    /\ TbOnly

\* a store on a new database file: create_all makes the empty table
TbInit ==
    /\ tRows = <<>>
    /\ tHist = <<>>
    /\ tGot = None

----------------------------------------------------------------------------
(* _score_relational(claim, rel) as a function of the claim and the table. *)
(* A section number is the sequence of its digits.  Of the text of a claim *)
(* the model keeps the numbers written in it, in order, each with what     *)
(* stands right before it: "Section" (with or without IPC or BNS in front: *)
(* SECTION_RE matches and the number is a token), "BNS" (as in "BNS 101":  *)
(* no token) or nothing.                                                   *)
(***************************************************************************)

MaxWords == 3

N302 == <<3, 0, 2>>

N376 == <<3, 7, 6>>

N101 == <<1, 0, 1>>

N1011 == <<1, 0, 1, 1>>

N64 == <<6, 4>>

ClaimNums == {N302, N376, N101, N1011}

Word(pre, num) == [pre |-> pre, num |-> num]

Words == {Word(pre, num) : pre \in {"Section", "BNS", ""}, num \in ClaimNums}

SeqsUpTo(S, n) == UNION {[1..k -> S] : k \in 0..n}

XrClaims == SeqsUpTo(Words, MaxWords)

\* tables of at most two rows with distinct keys
XrTables ==
    LET rows == {Row(ipc, bns, "") : ipc \in {N302, N376}, bns \in {N101, N64}}
    IN  {<<>>} \cup {<<r>> : r \in rows}
        \cup {p \in {<<r, q>> : r \in rows, q \in rows} :
                p[1].ipc_section # p[2].ipc_section}

\* the set {m.group(1) for m in SECTION_RE.finditer(text)}
SectionSet(claim) ==
    {claim[i].num : i \in {j \in DOMAIN claim : claim[j].pre = "Section"}}

\* _extract_sections(text): list(set), in whatever order the set iterates
ExtractSections(claim) ==
    LET S == SectionSet(claim)
    IN  {f \in [1..Cardinality(S) -> S] : \A i, j \in DOMAIN f : i # j => f[i] # f[j]}

\* a is a prefix of b
IsPrefixOf(a, b) == Len(a) <= Len(b) /\ SubSeq(b, 1, Len(a)) = a

\* a occurs in b as a run of consecutive digits
OccursIn(a, b) ==
    \E i \in 1..(Len(b) - Len(a) + 1) : SubSeq(b, i, i + Len(a) - 1) = a

\* `bns in claim`: the digits of bns occur somewhere in the text
InClaim(bns, claim) == \E i \in DOMAIN claim : OccursIn(bns, claim[i].num)

\* `f"BNS {bns}" in claim`
BnsInClaim(bns, claim) ==
    \E i \in DOMAIN claim : claim[i].pre = "BNS" /\ IsPrefixOf(bns, claim[i].num)

\* ok = (bns in claim) or (f"BNS {bns}" in claim)
MappingOk(bns, claim) == InClaim(bns, claim) \/ BnsInClaim(bns, claim)

RECURSIVE NumStr(_)
NumStr(n) == IF n = <<>> THEN "" ELSE ToString(Head(n)) \o NumStr(Tail(n))

\* the loop `for ipc in secs`: the score at the first token that hits
RECURSIVE FirstHit(_, _, _)
FirstHit(secs, claim, rows) ==
    IF secs = <<>>
    THEN Score("uncertain", 4000, "No mapping found in IPC<->BNS table.",
               "relational")
    ELSE LET record == GetByIpc(rows, Head(secs))
         IN  IF record = None THEN FirstHit(Tail(secs), claim, rows)
             ELSE LET bns == record[1].bns_section
                      ok == MappingOk(bns, claim)
                  IN  Score(IF ok THEN "supported" ELSE "contradicted",
                            IF ok THEN 9000 ELSE 7000,
                            "IPC " \o NumStr(Head(secs)) \o " -> BNS "
                                \o NumStr(bns) \o ". " \o record[1].notes,
                            "relational")

\* _score_relational(claim, rel) when _extract_sections gave secs
ScoreRelational(secs, claim, rows) ==
    IF secs = <<>> THEN Score("uncertain", 0, "", "relational")
    ELSE FirstHit(secs, claim, rows)

XrStep ==
    /\ xOut = None
    /\ \E secs \in ExtractSections(xClaim) :
         xOut' = Some(ScoreRelational(secs, xClaim, xTable))
    /\ UNCHANGED <<xClaim, xTable>>
    /\ XrOnly

XrInit ==
    /\ xClaim \in XrClaims
    /\ xTable \in XrTables
    /\ xOut = None

----------------------------------------------------------------------------
(* _score_vector(claim, vec) as a function of the tokens of the claim and  *)
(* of what vec.query returned.  A passage is the sequence of its lines     *)
(* (chunk_text.splitlines()), a line the set of section numbers that stand *)
(* in it as whole words: the only thing the \b...\b searches read.  A      *)
(* distance is in ten-thousandths, like the similarity 1 - dist.           *)
(***************************************************************************)

MaxLines == 5

\* the lists _extract_sections can give for claims with the tokens 302, 101
SecLists == {<<>>, <<N302>>, <<N101>>, <<N302, N101>>, <<N101, N302>>}

Lines == SUBSET {N302, N101}

Passages == SeqsUpTo(Lines, MaxLines)

\* a row on one line, its two cells on two lines, one of the two numbers,
\* and a passage without either
FewPassages ==
    {<<{N302, N101}>>, <<{N302}, {N101}>>, <<{N302}, {}>>, <<{}>>}

\* similarities at, next to and between the thresholds of the two ladders
SimGrid ==
    {0, 2000, 3499, 3500, 3501, 4000, 4001, 4499, 4500, 4501, 5499, 5500,
     5501, 5799, 5800, 5801, 6499, 6500, 6501, 6999, 7000, 7001, 7799, 7800,
     7801, 10000}

\* the distances that give them, and two distances above 1
Dists == {10000 - s : s \in SimGrid} \cup {10001, 14142}

FewDists == {2500, 7000}

Result(text, dist) == [text |-> text, dist |-> dist]

\* re.search(r"\b" + sec + r"\b", text) on the lines i..j joined
InLines(sec, text, i, j) == \E n \in i..j : sec \in text[n]

AllSecs(secs) == {secs[i] : i \in DOMAIN secs}

\* _chunk_contains_any_section(chunk_text, section_numbers)
ChunkContainsAnySection(text, secs) ==
    \/ secs = <<>>
    \/ \E sec \in AllSecs(secs) : InLines(sec, text, 1, Len(text))

\* _chunk_states_mapping(chunk_text, section_numbers): the windows start
\* at the lines 1 .. len(lines) - 3
ChunkStatesMapping(text, secs) ==
    \/ Len(secs) < 2
    \/ \E i \in 1..(Len(text) - 4 + 1) :
         \A sec \in AllSecs(secs) : InLines(sec, text, i, i + 3)
    \/ \E n \in DOMAIN text :
         \A sec \in AllSecs(secs) : sec \in text[n]

\* use_results[0]: the first result that has one of the tokens, or the
\* first result when none has
BestResult(secs, res) ==
    LET filtered == SelectSeq(res,
                        LAMBDA r : ChunkContainsAnySection(r.text, secs))
    IN  IF filtered # <<>> THEN filtered[1] ELSE res[1]

\* the mutant of Sim: 1 - dist without the clamp
Sim_NoClamp(dist) == 10000 - dist

\* sim = max(0.0, min(1.0, 1.0 - dist))
Sim(dist) == Max(0, Min(10000, 10000 - dist))

\* `chunk_states_this_mapping and secs`
LooserLadder(secs, res) ==
    ChunkStatesMapping(BestResult(secs, res).text, secs) /\ secs # <<>>

Tier(st, conf) == [status |-> st, confidence |-> conf]

\* the ladder of the section-number path
Looser(sim) ==
    IF sim <= 4000 THEN Tier("moderate_evidence", 7200)
    ELSE IF sim >= 7000 THEN Tier("strong_evidence", Max(sim, 7800))
    ELSE IF sim >= 5500 THEN Tier("moderate_evidence", Max(sim, 6500))
    ELSE IF sim >= 4500 THEN Tier("weak_evidence", Max(sim, 5500))
    ELSE Tier("uncertain", sim)

\* the mutant of Stricter: moderate_evidence from 0.55, as in the other
\* ladder
Stricter_ModerateFrom55(sim) ==
    IF sim >= 7000 THEN Tier("strong_evidence", Max(sim, 7800))
    ELSE IF sim >= 5500 THEN Tier("moderate_evidence", Max(sim, 6500))
    ELSE IF sim >= 4500 THEN Tier("weak_evidence", Max(sim, 5500))
    ELSE IF sim >= 3500 THEN Tier("uncertain", sim)
    ELSE Tier("no_evidence", sim)

\* the ladder of the other path
Stricter(sim) ==
    IF sim >= 7000 THEN Tier("strong_evidence", Max(sim, 7800))
    ELSE IF sim >= 5800 THEN Tier("moderate_evidence", Max(sim, 6500))
    ELSE IF sim >= 4500 THEN Tier("weak_evidence", Max(sim, 5500))
    ELSE IF sim >= 3500 THEN Tier("uncertain", sim)
    ELSE Tier("no_evidence", sim)

\* _score_vector(claim, vec) when _extract_sections gave secs and
\* vec.query gave res; the evidence is the passage (its first 600
\* characters)
ScoreVector(secs, res) ==
    IF res = <<>>
    THEN Score("uncertain", 0, "No semantic evidence.", "vector")
    ELSE LET best == BestResult(secs, res)
             sim == Sim(best.dist)
             t == IF LooserLadder(secs, res) THEN Looser(sim)
                  ELSE Stricter(sim)
         IN  Score(t.status, t.confidence, best.text, "vector")

\* one call; `looser` is whether the first ladder was the one applied
SvStep ==
    /\ vOut = None
    /\ vOut' = Some([score |-> ScoreVector(vSecs, vResults),
                     looser |-> vResults # <<>>
                                /\ LooserLadder(vSecs, vResults)])
    /\ UNCHANGED <<vSecs, vResults>>
    /\ SvOnly

\* every distance on a few passages, every passage at a few distances, and
\* the result lists of length 0 and 2
SvInit ==
    /\ vSecs \in SecLists
    /\ \/ vResults \in {<<Result(p, d)>> : p \in FewPassages, d \in Dists}
       \/ vResults \in {<<Result(p, d)>> : p \in Passages, d \in FewDists}
       \/ vResults = <<>>
       \/ vResults \in {<<Result(p, d), Result(q, e)>> :
                           p \in FewPassages, q \in FewPassages,
                           d \in FewDists, e \in FewDists}
    /\ vOut = None

----------------------------------------------------------------------------
(* verifier_node on the verify route as a function of state["claims"], of  *)
(* the table and of what the vector store returns for each claim: the loop *)
(* over the claims with _score_relational, _score_vector and _fuse, and    *)
(* the aggregate.  (Its throttle and its failures are part of Spec.)       *)
(***************************************************************************)

\* the mutant of USE_RELATIONAL_VERIFICATION: the table is consulted
USE_RELATIONAL_VERIFICATION_On == TRUE

USE_RELATIONAL_VERIFICATION == FALSE

N103 == <<1, 0, 3>>

N999 == <<9, 9, 9>>

\* "Murder is punishable", "Section 302 is murder",
\* "Section 302 corresponds to Section 103"
VpClaims ==
    { <<>>,
      <<Word("Section", N302)>>,
      <<Word("Section", N302), Word("Section", N103)>> }

VpClaimLists == SeqsUpTo(VpClaims, MaxClaims)

VpTables == {<<>>, <<Row(N302, N103, "")>>, <<Row(N302, N999, "")>>}

\* what vec.query can give for a claim: nothing, or one passage
VpResults ==
    {<<>>}
    \cup {<<Result(<<{N302}, {N103}>>, 2500)>>}
    \cup {<<Result(<<{N302, N103}>>, d)>> : d \in {0, 2500, 5000}}
    \cup {<<Result(<<{}>>, d)>> : d \in {7000, 14142}}

\* rel_score of the loop body
RelScore(secs, claim, rows) ==
    IF USE_RELATIONAL_VERIFICATION THEN ScoreRelational(secs, claim, rows)
    ELSE RelOff

\* one pass of the loop body for a claim, with secs what _extract_sections
\* gave, res what vec.query gave and `up` the direction of round(conf, 3)
\* in _fuse: the two scores and the fused record
LoopBody(claim, rows, secs, res, up) ==
    LET rel_score == RelScore(secs, claim, rows)
        vec_score == ScoreVector(secs, res)
    IN  [rel |-> rel_score,
         vec |-> vec_score,
         fused |-> [Fuse(rel_score, vec_score, up) EXCEPT !.claim = claim]]

\* the directions round(conf, 3) can take in that pass
LoopOutcomes(claim, rows, secs, res) ==
    FuseOutcomes(RelScore(secs, claim, rows), ScoreVector(secs, res))

Fused(recs) == [i \in DOMAIN recs |-> recs[i].fused]

\* the loop from the claim at position i on, with recs the records of the
\* claims before it, and then the aggregate
RECURSIVE VpLoop(_, _)
VpLoop(recs, i) ==
    IF i <= Len(pClaims)
    THEN \E secs \in ExtractSections(pClaims[i]), res \in VpResults :
           \E up \in LoopOutcomes(pClaims[i], pTable, secs, res) :
             VpLoop(Append(recs, LoopBody(pClaims[i], pTable, secs, res, up)),
                    i + 1)
    ELSE /\ pRecs' = recs
         /\ \E tieUp \in TieOutcomes(Fused(recs)),
               up \in AvgOutcomes(Fused(recs)) :
              pFinal' = Some(Aggregate(Fused(recs), tieUp, up))

\* the lines from `claims = state.get("claims", [])` to the end
VpVerify ==
    /\ pFinal = None
    /\ VpLoop(<<>>, 1)
    /\ UNCHANGED <<pTable, pClaims>>
    /\ VpOnly

VpInit ==
    /\ pTable \in VpTables
    /\ pClaims \in VpClaimLists
    /\ pRecs = <<>>
    /\ pFinal = None

----------------------------------------------------------------------------
(* Specifications                                                          *)

\* a subsystem a specification does not move stays in one initial state
WfParked == WfInit /\ provider = "offline" /\ apiKey = FALSE

ThParked == ThInit

SmParked == SmInit

RtParked == RtInit /\ rMax = MAX_RETRIES

MrParked == MrInit

AgParked == AgInit

GtParked == gFinal = None /\ gOut = None

FuParked ==
    /\ fRel = Score("uncertain", 0, "table", "relational")
    /\ fVec = Score("uncertain", 0, "chunk", "vector")
    /\ fOut = None

TbParked == TbInit

XrParked == xClaim = <<>> /\ xTable = <<>> /\ xOut = None

SvParked == vSecs = <<>> /\ vResults = <<>> /\ vOut = None

VpParked == pTable = <<>> /\ pClaims = <<>> /\ pRecs = <<>> /\ pFinal = None

\* the subsystems of the pure functions and of the table, at rest
Parked ==
    /\ AgParked /\ GtParked /\ FuParked
    /\ TbParked /\ XrParked /\ SvParked /\ VpParked

Init == WfInit /\ ThParked /\ SmParked /\ RtParked /\ MrParked /\ Parked

Next ==
    \/ \E n \in Nodes : StartTask(n)
    \/ planner_node
    \/ RouteDecision
    \/ primary_llm_node
    \/ claim_extractor_node
    \/ verifier_node
    \/ human_validation_node
    \/ evaluation_node
    \/ ApplyWrites
    \/ RejectConcurrentUpdate

Spec == Init /\ [][Next]_vars

\* the event loop runs every task that is ready and ends every superstep
\* whose tasks are done: a step that stays possible is taken
SpecFair == Init /\ [][Next]_vars /\ WF_vars(Next)

InitThrottle == WfParked /\ ThInit /\ SmParked /\ RtParked /\ MrParked /\ Parked

NextThrottle ==
    \/ \E t \in Callers : ThReadElapsed(t)
    \/ \E t \in Callers : ThCheck(t)
    \/ \E t \in Callers : ThWake(t)
    \/ \E t \in Callers : ThStamp(t)
    \/ Tick

SpecThrottle == InitThrottle /\ [][NextThrottle]_vars

InitStore == WfParked /\ ThParked /\ SmInit /\ RtParked /\ MrParked /\ Parked

NextStore ==
    \/ \E t \in Threads : SmCall(t)
    \/ \E t \in Threads : NewCheck1(t)
    \/ \E t \in Threads : NewLock(t)
    \/ \E t \in Threads : NewCheck2(t)
    \/ \E t \in Threads : NewCreate(t)
    \/ \E t \in Threads : NewSetFlag(t)
    \/ \E t \in Threads : NewReturn(t)
    \/ \E t \in Threads : InitCheck1(t)
    \/ \E t \in Threads : InitLock(t)
    \/ \E t \in Threads : InitCheck2(t)
    \/ \E t \in Threads : InitRelational(t)
    \/ \E t \in Threads : InitVector(t)
    \/ \E t \in Threads : InitFlag(t)

SpecStore == InitStore /\ [][NextStore]_vars

InitRetry == WfParked /\ ThParked /\ SmParked /\ RtInit /\ MrParked /\ Parked

NextRetry == RetryAttempt \/ RetryWake

SpecRetry == InitRetry /\ [][NextRetry]_vars

InitRuns == WfParked /\ ThParked /\ SmParked /\ RtParked /\ MrInit /\ Parked

NextRuns ==
    \/ \E r \in Runs : MrCheck(r)
    \/ \E r \in Runs : MrCreate(r)
    \/ \E r \in Runs : MrInvoke(r)
    \/ \E r \in Runs : MrNode(r)
    \/ \E r \in Runs : MrReturn(r)

SpecRuns == InitRuns /\ [][NextRuns]_vars

InitAggregate ==
    /\ WfParked /\ ThParked /\ SmParked /\ RtParked /\ MrParked
    /\ AgInit /\ GtParked /\ FuParked
    /\ TbParked /\ XrParked /\ SvParked /\ VpParked

NextAggregate == AggAdd \/ AggCompute

SpecAggregate == InitAggregate /\ [][NextAggregate]_vars

InitGate ==
    /\ WfParked /\ ThParked /\ SmParked /\ RtParked /\ MrParked
    /\ AgParked /\ GtInit /\ FuParked
    /\ TbParked /\ XrParked /\ SvParked /\ VpParked

NextGate == GateStep

SpecGate == InitGate /\ [][NextGate]_vars

InitFuse ==
    /\ WfParked /\ ThParked /\ SmParked /\ RtParked /\ MrParked
    /\ AgParked /\ GtParked /\ FuInit
    /\ TbParked /\ XrParked /\ SvParked /\ VpParked

NextFuse == FuseStep

SpecFuse == InitFuse /\ [][NextFuse]_vars

InitTable ==
    /\ WfParked /\ ThParked /\ SmParked /\ RtParked /\ MrParked
    /\ AgParked /\ GtParked /\ FuParked
    /\ TbInit /\ XrParked /\ SvParked /\ VpParked

NextTable == TblUpsert \/ TblGet

SpecTable == InitTable /\ [][NextTable]_vars

InitRelScore ==
    /\ WfParked /\ ThParked /\ SmParked /\ RtParked /\ MrParked
    /\ AgParked /\ GtParked /\ FuParked
    /\ TbParked /\ XrInit /\ SvParked /\ VpParked

NextRelScore == XrStep

SpecRelScore == InitRelScore /\ [][NextRelScore]_vars

InitVecScore ==
    /\ WfParked /\ ThParked /\ SmParked /\ RtParked /\ MrParked
    /\ AgParked /\ GtParked /\ FuParked
    /\ TbParked /\ XrParked /\ SvInit /\ VpParked

NextVecScore == SvStep

SpecVecScore == InitVecScore /\ [][NextVecScore]_vars

InitVerify ==
    /\ WfParked /\ ThParked /\ SmParked /\ RtParked /\ MrParked
    /\ AgParked /\ GtParked /\ FuParked
    /\ TbParked /\ XrParked /\ SvParked /\ VpInit

NextVerify == VpVerify

SpecVerify == InitVerify /\ [][NextVerify]_vars

----------------------------------------------------------------------------
(* Claims about the workflow run (Spec)                                    *)

Downstream == {"claim_extractor", "verifier", "human_validation", "evaluation"}

\* C1: nothing downstream of the fan-out -- the route decision or one of
\* claim_extractor, verifier, human_validation, evaluation -- begins before
\* both planner_node and primary_llm_node have completed.
C1_DownstreamAfterJoin ==
    (routeDecision # None \/ begun \cap Downstream # {})
        => StartNodes \subseteq completed

\* the (step, field) pairs C2 lists
C2Pairs ==
    { <<"claim_extractor", "llm_answer">>, <<"verifier", "claims">>,
      <<"human_validation", "final_result">>, <<"evaluation", "plan">>,
      <<"evaluation", "route">>, <<"evaluation", "final_result">> }

\* C2: on either route a step reads a RunState field only after the field's
\* producer has written it: none of the listed steps ever reads its field
\* while the field is absent.
C2_ReadsAfterProducers == earlyReads \cap C2Pairs = {}

\* C3: in a run that completes (no step failed), evaluation_node has run
\* exactly once, it was the last step to run, and exactly one record was
\* appended to the run log.
C3_LoggingOnceAndLast ==
    run = "done" =>
        /\ execCount["evaluation"] = 1
        /\ Len(evalLog) = 1
        /\ order[Len(order)] = "evaluation"

\* C4: in a run whose planner yields route direct, claim_extractor_node,
\* verifier_node and human_validation_node are never executed.
C4_DirectSkipsVerification ==
    routeDecision = Some(FALSE) =>
        begun \cap {"claim_extractor", "verifier", "human_validation"} = {}

\* C10: a quota-exhaustion error of the generator fails the run only once
\* the retries are exhausted: when the run has failed on a quota error, the
\* failing step has called the generator MAX_RETRIES times.
C10_QuotaErrorRetried ==
    (run = "failed" /\ err = "RateLimitError") =>
        \E n \in Nodes : pc[n] = "failed" /\ llmCalls[n] = MAX_RETRIES

\* the steps upstream of Logging
Upstream == Nodes \ {"evaluation"}

\* C11: in a run where a step upstream of Logging (planner, primary_llm,
\* claim_extractor, verifier or human_validation) fails, evaluation_node
\* still executes and appends its record before the run ends.
C11_LoggingOnUpstreamError ==
    (run = "failed" /\ \E n \in Upstream : pc[n] = "failed")
        => "evaluation" \in completed /\ Len(evalLog) >= 1

\* C12: the log append and the escalation-queue append are best-effort: a
\* failed write never turns the run into a failed run.
C12_WritesBestEffort ==
    \A n \in {"human_validation", "evaluation"} :
        ~(run = "failed" /\ pc[n] = "failed" /\ err = "IOError")

\* C13: when a step upstream of Logging fails the run fails: run_workflow
\* raises the error instead of returning a state, and no route decision has
\* been taken on a partial join (with planner or primary_llm not completed).
C13_FailedRunRaises ==
    (\E n \in Upstream : pc[n] = "failed") =>
        /\ RunWorkflowReturns = None
        /\ RunWorkflowRaises = Some(err)
        /\ (~(StartNodes \subseteq completed) => routeDecision = None)

\* the claim list and the final_result in the committed state
ClaimList == Get(chan, "claims", <<>>)

AllCountsZero(f) ==
    /\ f.supported_claims = 0
    /\ f.weak_evidence_claims = 0
    /\ f.no_evidence_claims = 0
    /\ f.contradicted_claims = 0
    /\ f.uncertain_claims = 0
    /\ f.total_claims = 0

C19_EscalationOutcome ==
    "human_validation" \in completed =>
        LET o == IF pc["human_validation"] = "done" THEN out["human_validation"]
                 ELSE chan
        IN  \/ /\ o["needs_human"] = Some(TRUE)
               /\ o["human_feedback"] = Some("queued_for_review")
               /\ Len(reviewQueue) = 1
            \/ /\ o["needs_human"] = Some(FALSE)
               /\ o["human_feedback"] = Some("auto-approved")
               /\ Len(reviewQueue) = 0

\* C19 witness: a verify-route run was escalated and its record queued.
C19_Witness ==
    /\ "human_validation" \in completed
    /\ chan["needs_human"] = Some(TRUE)
    /\ chan["human_feedback"] = Some("queued_for_review")
    /\ Len(reviewQueue) = 1
    /\ reviewQueue[1].final_result = chan["final_result"]

\* the output fields of each step
OwnFields(n) ==
    CASE n = "planner"          -> {"plan", "route"}
      [] n = "primary_llm"      -> {"llm_answer"}
      [] n = "claim_extractor"  -> {"claims"}
      [] n = "verifier"         -> {"verifications", "final_result"}
      [] n = "human_validation" -> {"needs_human", "human_feedback"}
      [] n = "evaluation"       -> {"evaluation"}

\* C28: the state a step returns differs from the state it was given only
\* in the step's own output fields; the run state changes only in output
\* fields of the steps that just ran; and a field that is set stays set.
C28_OwnFieldsOnly ==
    [][ /\ \A n \in Nodes :
             pc'[n] \in {"returned", "done"} =>
               \A k \in Keys \ OwnFields(n) : out'[n][k] = chan'[k]
        /\ \A k \in Keys :
             chan'[k] # chan[k] => \E n \in Scheduled : k \in OwnFields(n)
        /\ \A k \in Keys : chan[k] # None => chan'[k] # None ]_vars

\* C28 witness: a run on the verify route is done with every field set.
C28_Witness ==
    /\ run = "done"
    /\ chan["route"] = Some("verify")
    /\ \A k \in Keys : chan[k] # None

\* errors that come from a failing collaborator: the generator (its
\* construction included), the vector store, the two JSONL files
CollaboratorErrors ==
    {"RateLimitError", "ProviderError", "RuntimeError", "ValueError",
     "StoreError", "IOError"}

\* the run is Done and the state returned to the caller has the route, the
\* answer, the final result, the escalation tag and the log entry
DoneComplete ==
    /\ RunWorkflowReturns # None
    /\ \A k \in {"route", "llm_answer", "final_result", "needs_human",
                 "human_feedback", "evaluation"} :
         RunWorkflowReturns[1][k] # None
    /\ evalLog # <<>>

\* C30: under fair scheduling a run in which no collaborator call fails
\* eventually is Done with those fields set, on either route: every run
\* ends Done and complete, or with the error of a failed collaborator.
C30_EventuallyDone ==
    <>(DoneComplete \/ (run = "failed" /\ err \in CollaboratorErrors))

\* the state a completed run on the direct route returns
DirectFinal == run = "done" /\ chan["route"] = Some("direct")

\* C31: in the final state of a completed direct-route run, claims and
\* verifications are empty, final_result is direct_answer with every count
\* and the total 0, needs_human is not true, the run is not tagged
\* queued_for_review and the escalation queue has no record.
C31_DirectFinalState ==
    DirectFinal =>
      /\ chan["claims"] = Some(<<>>)
      /\ chan["verifications"] = Some(<<>>)
      /\ chan["final_result"] # None
      /\ LET f == chan["final_result"][1]
         IN  /\ f.overall_status = "direct_answer"
             /\ f.supported_claims = 0
             /\ f.weak_evidence_claims = 0
             /\ f.no_evidence_claims = 0
             /\ f.contradicted_claims = 0
             /\ f.uncertain_claims = 0
             /\ f.total_claims = 0
      /\ chan["needs_human"] # Some(TRUE)
      /\ chan["human_feedback"] # Some("queued_for_review")
      /\ reviewQueue = <<>>

\* C31 witness: a direct-route run is done, tagged auto-approved and logged.
C31_Witness ==
    /\ DirectFinal
    /\ chan["human_feedback"] = Some("auto-approved")
    /\ chan["evaluation"] # None

\* the reply reads direct: blanks, the six letters of "direct" in either
\* case, blanks
ReadsDirect(r) ==
    \E i \in 1..Len(r) :
      /\ i + 5 <= Len(r)
      /\ \A k \in 1..6 :
           \/ r[i + k - 1] = DirectChars[k]
           \/ /\ r[i + k - 1] \in DOMAIN ToLower
              /\ ToLower[r[i + k - 1]] = DirectChars[k]
      /\ \A j \in 1..Len(r) : (j < i \/ j > i + 5) => r[j] \in Whitespace

\* C32: once planner_node has returned, route is verify or direct, and it
\* is direct only when the reply reads direct once trimmed and
\* lower-cased: an empty or unrecognised reply gives verify, and the
\* branch that skips verification is taken only on a reply that reads
\* direct.
C32_RouteNormalised ==
    "planner" \in completed =>
      LET o == IF pc["planner"] \in {"returned", "done"} THEN out["planner"]
               ELSE chan
      IN  /\ planReply # None
          /\ o["route"] \in {Some("verify"), Some("direct")}
          /\ o["route"] = Some("direct") <=> ReadsDirect(planReply[1])
          /\ routeDecision = Some(FALSE) => ReadsDirect(planReply[1])

\* C32 witness: the reply "directly" was given the route verify and the
\* branch to claim extraction was taken.
C32_Witness ==
    /\ "planner" \in completed
    /\ planReply = Some(<<"d", "i", "r", "e", "c", "t", "l", "y">>)
    /\ routeDecision = Some(TRUE)

----------------------------------------------------------------------------
(* Claims about the throttle (SpecThrottle)                                *)

\* C5: the instants at which two consecutive throttle_before_api_call calls
\* return are at least THROTTLE_SECONDS apart, for any interleaving of the
\* callers.
C5_MinimumGap ==
    \A i \in 1..(Len(returns) - 1) :
        returns[i + 1] - returns[i] >= THROTTLE_SECONDS

----------------------------------------------------------------------------
(* Claims about StoreManager (SpecStore)                                   *)

InBody == {t \in Threads : spc[t] \in {"init_rel", "init_vec", "init_flag"}}

\* C6 as stated: the initialization body of StoreManager.__init__ runs in
\* at most one thread over the life of the process.
C6_BodyRunsOnce == bodyRuns <= 1

\* C6 amended: the initialization body runs to its end at most once and
\* never in two threads at a time; it is entered again only after an
\* earlier run of it raised.
C6_BuildsAtMostOnce ==
    /\ buildsDone <= 1
    /\ bodyRuns <= buildsFailed + 1
    /\ Cardinality(InBody) <= 1

\* C6 witness: two threads raced through the first check of __init__, one
\* built the stores, the other found them built under the lock.
C6_Witness ==
    /\ recheckHits >= 1
    /\ buildsDone = 1
    /\ bodyRuns = 1
    /\ \A t \in Threads : results[t] # <<>>

\* C7: every StoreManager() call returns without error, all calls return
\* the same instance, and the instance is fully initialized by the time a
\* call returns.
C7_CallsReturnReadyInstance ==
    \A t \in Threads : \A i \in 1..Len(results[t]) :
        /\ results[t][i].kind = "ok"
        /\ results[t][i].ready
        /\ \A u \in Threads : \A j \in 1..Len(results[u]) :
               results[u][j].inst = results[t][i].inst

----------------------------------------------------------------------------
(* Claims about _invoke_with_retry (SpecRetry)                             *)

\* a quota-exhaustion error: its message names 429 or RESOURCE_EXHAUSTED
QuotaError(o) == ~o.ok /\ (o.has429 \/ o.hasResourceExhausted)

OtherError(o) == ~o.ok /\ ~o.has429 /\ ~o.hasResourceExhausted

\* C8: fn is called at most max_retries times; when every attempt fails
\* with a quota error there are max_retries attempts, max_retries - 1
\* sleeps (none after the last attempt) and the last error is raised; the
\* first successful attempt ends the call with its result.
C8_BoundedRetry ==
    /\ Len(rOutcomes) <= rMax
    /\ (rPc = "raised" /\ \A i \in 1..Len(rOutcomes) : QuotaError(rOutcomes[i]))
          => /\ Len(rOutcomes) = rMax
             /\ Len(rSleeps) = rMax - 1
             /\ rRaised = Some(rOutcomes[rMax])
    /\ \A i \in 1..Len(rOutcomes) :
          rOutcomes[i].ok => /\ i = Len(rOutcomes)
                             /\ rPc = "returned"
                             /\ rResult = Some(rOutcomes[i].val)
                             /\ Len(rSleeps) = i - 1

\* C8 witness: four quota errors in a row with the default max_retries.
C8_Witness ==
    /\ rMax = MAX_RETRIES
    /\ rPc = "raised"
    /\ Len(rOutcomes) = MAX_RETRIES
    /\ \A i \in 1..Len(rOutcomes) : QuotaError(rOutcomes[i])

\* C9: an attempt that fails with an error that is not a quota error is
\* the last one: the error is raised to the caller at once, with no sleep
\* after it and no further call of fn.
C9_OtherErrorRaisedAtOnce ==
    \A i \in 1..Len(rOutcomes) :
        OtherError(rOutcomes[i]) =>
            /\ i = Len(rOutcomes)
            /\ rPc = "raised"
            /\ rRaised = Some(rOutcomes[i])
            /\ Len(rSleeps) = i - 1

\* C9 witness: a non-quota error on the second attempt, with attempts left.
C9_Witness ==
    /\ rMax = MAX_RETRIES
    /\ Len(rOutcomes) = 2
    /\ QuotaError(rOutcomes[1])
    /\ OtherError(rOutcomes[2])
    /\ rPc = "raised"

\* the suggested delay plus 5 s, kept within 55 s and 120 s
ClaimedBackoff(d) ==
    IF d + 5 < 55 THEN 55 ELSE IF d + 5 > 120 THEN 120 ELSE d + 5

\* C29: the i-th sleep, which follows the i-th failed attempt, lasts 55 s
\* when the error of that attempt suggests no delay and
\* min(120, max(55, d + 5)) s when it suggests d seconds; every sleep is
\* between 55 s and 120 s.
C29_BackoffRange ==
    \A i \in 1..Len(rSleeps) :
        /\ rSleeps[i] = (IF rOutcomes[i].retryIn = None THEN 55
                         ELSE ClaimedBackoff(rOutcomes[i].retryIn[1]))
        /\ 55 <= rSleeps[i] /\ rSleeps[i] <= 120

\* C29 witness: sleeps at the floor, in between and at the cap.
C29_Witness ==
    /\ Len(rSleeps) = 3
    /\ rOutcomes[1].retryIn = None /\ rSleeps[1] = 55
    /\ rOutcomes[2].retryIn = Some(51) /\ rSleeps[2] = 56
    /\ rOutcomes[3].retryIn = Some(116) /\ rSleeps[3] = 120

----------------------------------------------------------------------------
(* Claims about concurrent runs (SpecRuns)                                 *)

\* the objects that more than one run has read or written
SharedObjects ==
    {<<a[1], a[2]>> : a \in {x \in mAccess :
        \E y \in mAccess : y[1] = x[1] /\ y[2] = x[2] /\ y[3] # x[3]}}

----------------------------------------------------------------------------
(* Claims about the aggregate (SpecAggregate)                              *)

HasStatus(vs, st) == \E i \in 1..Len(vs) : vs[i].status = st

\* C15: for every non-empty list of fused records the overall status is
\* unreliable if and only if at least one record is contradicted, whatever
\* the other records and the average confidence.
C15_UnreliableIffContradicted ==
    (aggOut # None /\ aggIn # <<>>) =>
        (aggOut[1].overall_status = "unreliable"
            <=> HasStatus(aggIn, "contradicted"))

\* C15 witness: one contradicted record among strong ones of high
\* confidence gives unreliable.
C15_Witness ==
    /\ aggOut # None
    /\ Len(aggIn) = MaxRecords
    /\ CountIn(aggIn, {"contradicted"}) = 1
    /\ CountIn(aggIn, {"strong_evidence"}) = MaxRecords - 1
    /\ \A i \in 1..Len(aggIn) : aggIn[i].confidence = 9000
    /\ aggOut[1].overall_status = "unreliable"

\* C16: for every non-empty list of fused records with no contradicted
\* record the overall status is reliable exactly when supported/total >=
\* 0.7 and the average confidence >= 0.55, and uncertain otherwise.
C16_ReliableThresholds ==
    (aggOut # None /\ aggIn # <<>> /\ ~HasStatus(aggIn, "contradicted")) =>
        LET supported == CountIn(aggIn, {"strong_evidence", "moderate_evidence"})
            ok == /\ 10 * supported >= 7 * Len(aggIn)
                  /\ SumConf(aggIn) >= 5500 * Len(aggIn)
        IN  aggOut[1].overall_status = IF ok THEN "reliable" ELSE "uncertain"

----------------------------------------------------------------------------
(* Claims about the escalation gate (SpecGate)                             *)

\* C18: human_validation_node sets needs_human to true if and only if the
\* overall status is unreliable or uncertain, or the average confidence is
\* below 0.7 (a missing final_result counts as status unknown, confidence 0).
C18_NeedsHumanIff ==
    (gOut # None /\ ~gOut[1].raised) =>
        LET overall == IF gFinal = None THEN "unknown"
                       ELSE gFinal[1].overall_status
            avg     == IF gFinal = None THEN 0
                       ELSE gFinal[1].average_confidence
        IN  gOut[1].needs_human
                <=> (overall \in {"unreliable", "uncertain"} \/ avg < 7000)

\* C18 witness: reliable with average confidence 0.69 is escalated.
C18_Witness ==
    /\ gFinal # None
    /\ gFinal[1].overall_status = "reliable"
    /\ gFinal[1].average_confidence = 6900
    /\ gOut # None
    /\ ~gOut[1].raised
    /\ gOut[1].needs_human

----------------------------------------------------------------------------
(* Claims about _fuse (SpecFuse)                                           *)

RuleStatus ==
    IF fRel.status = "uncertain" THEN fVec.status
    ELSE IF fRel.status = "supported" /\ fVec.status = "contradicted"
            /\ fVec.confidence > 7000
    THEN "uncertain"
    ELSE IF fRel.status = "supported" THEN "strong_evidence" ELSE "contradicted"

RuleConf2 ==
    IF fRel.status = "uncertain" THEN 2 * fVec.confidence
    ELSE IF fRel.status = "supported" /\ fVec.status = "contradicted"
            /\ fVec.confidence > 7000
    THEN fRel.confidence + fVec.confidence
    ELSE IF fRel.confidence >= fVec.confidence THEN 2 * fRel.confidence
         ELSE 2 * fVec.confidence

RuleSource == IF fRel.status = "uncertain" THEN "vector" ELSE "mixed"

\* C21 as stated: _fuse returns the result of the fusion rule, the fused
\* confidence being exactly V's confidence, mean(E.conf, V.conf) or
\* max(E.conf, V.conf).
C21_FusionRuleExact ==
    fOut # None =>
        /\ fOut[1].status = RuleStatus
        /\ 2 * fOut[1].confidence = RuleConf2
        /\ fOut[1].source = RuleSource
        /\ fRel.status = "uncertain" => fOut[1].evidence = fVec.evidence

\* C21 amended: _fuse returns the status and source of the fusion rule and
\* the rule's confidence (V's, the mean, or the max) rounded to 3 decimals,
\* so within 0.0005 of it; with an uncertain exact match the evidence is V's.
C21_FusionRuleRounded ==
    fOut # None =>
        /\ fOut[1].status = RuleStatus
        /\ fOut[1].confidence % 10 = 0
        /\ 2 * fOut[1].confidence - RuleConf2 \in -10..10
        /\ fOut[1].source = RuleSource
        /\ fRel.status = "uncertain" => fOut[1].evidence = fVec.evidence

\* C21 witness: a supported exact match is downgraded by a semantic
\* contradiction of confidence 0.7015, the mean 0.80075 being rounded.
C21_Witness ==
    /\ fRel = Score("supported", 9000, "table", "relational")
    /\ fVec = Score("contradicted", 7015, "chunk", "vector")
    /\ fOut # None
    /\ fOut[1].status = "uncertain"
    /\ fOut[1].confidence = 8010
    /\ fOut[1].source = "mixed"

----------------------------------------------------------------------------
(* Claims about the structured store (SpecTable)                           *)
(***************************************************************************)

\* the last triple written for key k, if any
LastWritten(k) ==
    LET ws == SelectSeq(tHist, LAMBDA w : w.ipc_section = k)
    IN  IF ws = <<>> THEN None ELSE Some(ws[Len(ws)])

\* C26: after any sequence of upsert_mapping calls, get_by_ipc of a key
\* gives the secondary section and the note of the last triple written for
\* that key, and none for a key never written; writing the last triple
\* again leaves the table as it is.
C26_RoundTrip ==
    /\ \A k \in TblKeys \cup {UnwrittenKey} :
         GetByIpc(tRows, k) = LastWritten(k)
    /\ tGot # None => tGot[1].row = LastWritten(tGot[1].key)
    /\ tHist # <<>> =>
         LET w == tHist[Len(tHist)]
         IN  UpsertMapping(tRows, w.ipc_section, w.bns_section, w.notes) = tRows

\* a key written twice with different values has been read back
C26_Witness ==
    /\ tGot # None
    /\ tGot[1].row # None
    /\ \E i \in DOMAIN tHist :
         /\ tHist[i].ipc_section = tGot[1].key
         /\ tHist[i] # tGot[1].row[1]

----------------------------------------------------------------------------
(* Claims about _score_relational (SpecRelScore)                           *)
(***************************************************************************)

\* the tokens of the claim that the table has a row for
HitTokens(claim, rows) == {t \in SectionSet(claim) : GetByIpc(rows, t) # None}

\* the claim names section n: n is one of the numbers written in it
Names(claim, n) == \E i \in DOMAIN claim : claim[i].num = n

\* the claim names the section the table maps token t to
NamesMapped(claim, rows, t) == Names(claim, GetByIpc(rows, t)[1].bns_section)

\* C23: the exact-match score is uncertain 0 when the claim has no section
\* token; uncertain 0.4 when it has tokens and none hits the table; and when
\* a token hits, supported 0.9 with a hit token whose mapped section the
\* claim names, or contradicted 0.7 with a hit token whose mapped section
\* the claim does not name.
C23_ExactMatchScore ==
    xOut # None =>
      LET o == xOut[1]
          hits == HitTokens(xClaim, xTable)
      IN  IF SectionSet(xClaim) = {}
          THEN o.status = "uncertain" /\ o.confidence = 0
          ELSE IF hits = {}
          THEN o.status = "uncertain" /\ o.confidence = 4000
          ELSE \/ /\ o.status = "supported" /\ o.confidence = 9000
                  /\ \E t \in hits : NamesMapped(xClaim, xTable, t)
               \/ /\ o.status = "contradicted" /\ o.confidence = 7000
                  /\ \E t \in hits : ~NamesMapped(xClaim, xTable, t)

----------------------------------------------------------------------------
(* Claims about _score_vector (SpecVecScore)                               *)
(***************************************************************************)

\* the similarity of the passage the score is taken from
BestSim == Sim(BestResult(vSecs, vResults).dist)

\* the first ladder of the specification, as written there
LadderWithPairing(sim) ==
    IF sim <= 4000 THEN Tier("moderate_evidence", 7200)
    ELSE IF sim >= 7000 THEN Tier("strong_evidence", Max(sim, 7800))
    ELSE IF 5500 <= sim /\ sim < 7000 THEN Tier("moderate_evidence", Max(sim, 6500))
    ELSE IF 4500 <= sim /\ sim < 5500 THEN Tier("weak_evidence", Max(sim, 5500))
    ELSE Tier("uncertain", sim)

\* the second ladder of the specification, as written there
LadderWithout(sim) ==
    IF sim >= 7000 THEN Tier("strong_evidence", Max(sim, 7800))
    ELSE IF 5800 <= sim /\ sim < 7000 THEN Tier("moderate_evidence", Max(sim, 6500))
    ELSE IF 4500 <= sim /\ sim < 5800 THEN Tier("weak_evidence", Max(sim, 5500))
    ELSE IF 3500 <= sim /\ sim < 4500 THEN Tier("uncertain", sim)
    ELSE Tier("no_evidence", sim)

\* C24: the semantic score has the status and the confidence of the ladder
\* in use at the similarity of the chosen passage, for every similarity in
\* [0,1], the thresholds 0.35, 0.40, 0.45, 0.55, 0.58 and 0.70 included.
C24_Ladders ==
    (vOut # None /\ vResults # <<>>) =>
      LET o == vOut[1].score
          t == IF vOut[1].looser THEN LadderWithPairing(BestSim)
               ELSE LadderWithout(BestSim)
      IN  o.status = t.status /\ o.confidence = t.confidence

\* both ladders have been applied at the threshold 0.58, where they differ
C24_Witness ==
    /\ vOut # None /\ vResults # <<>>
    /\ BestSim = 5800
    /\ vOut[1].score.status = "moderate_evidence"
    /\ vOut[1].score.confidence = 6500
    /\ ~vOut[1].looser

\* the passage states the pairing of the tokens: every token stands as a
\* whole word on one line, or all of them within some 4 consecutive lines
StatesPairing(text, secs) ==
    \E i \in DOMAIN text :
      \A sec \in AllSecs(secs) :
        \E n \in i..Min(i + 3, Len(text)) : sec \in text[n]

\* C25: the looser ladder is the one applied exactly when the claim has at
\* least one token and the chosen passage states the pairing.
C25_LooserIffPairing ==
    (vOut # None /\ vResults # <<>>) =>
      (vOut[1].looser <=>
         (vSecs # <<>> /\ StatesPairing(BestResult(vSecs, vResults).text, vSecs)))

----------------------------------------------------------------------------
(* Claims about the loop of verifier_node (SpecVerify)                     *)
(***************************************************************************)

\* C22: in the Verifying step a claim with a section token found in the
\* table gets a fused record derived from the lookup: source mixed, status
\* contradicted when the claim does not name the mapped section, and
\* strong_evidence with a confidence of 0.9 or more when it does, whatever
\* the semantic score is.
C22_FusedFromTable ==
    pFinal # None =>
      \A i \in DOMAIN pClaims :
        \A t \in HitTokens(pClaims[i], pTable) :
          /\ pRecs[i].fused.source = "mixed"
          /\ NamesMapped(pClaims[i], pTable, t) =>
               /\ pRecs[i].fused.status = "strong_evidence"
               /\ pRecs[i].fused.confidence >= 9000
          /\ ~NamesMapped(pClaims[i], pTable, t) =>
               pRecs[i].fused.status = "contradicted"

InUnit(conf) == 0 <= conf /\ conf <= 10000

\* C27: every confidence of the verifier lies in [0,1]: of the exact-match
\* score of each claim (as used, and as _score_relational gives it on the
\* table), of each semantic score, of each fused record, and the average
\* confidence of the FinalResult.
C27_ConfidencesInUnit ==
    /\ \A i \in DOMAIN pClaims :
         \A secs \in ExtractSections(pClaims[i]) :
           InUnit(ScoreRelational(secs, pClaims[i], pTable).confidence)
    /\ \A i \in DOMAIN pRecs :
         /\ InUnit(pRecs[i].rel.confidence)
         /\ InUnit(pRecs[i].vec.confidence)
         /\ InUnit(pRecs[i].fused.confidence)
    /\ pFinal # None => InUnit(pFinal[1].average_confidence)

\* a list with a semantic score from a distance above 1 (similarity
\* clamped to 0) and one from the distance 0 (similarity 1) has been
\* verified
C27_Witness ==
    /\ pFinal # None
    /\ \E i, j \in DOMAIN pRecs :
         /\ pRecs[i].vec.status = "no_evidence" /\ pRecs[i].vec.confidence = 0
         /\ pRecs[j].vec.confidence = 10000 /\ pRecs[j].fused.confidence = 10000
    /\ pFinal[1].average_confidence = 5000

\* C33: after the loop, verifications has one record per claim, in claim
\* order, record i with the text of claim i, and the five counts add up to
\* total_claims, which is the number of claims.
C33_OneRecordPerClaim ==
    pFinal # None =>
      /\ Len(pRecs) = Len(pClaims)
      /\ \A i \in DOMAIN pClaims : pRecs[i].fused.claim = pClaims[i]
      /\ LET f == pFinal[1]
         IN  /\ f.total_claims = Len(pClaims)
             /\ f.supported_claims + f.weak_evidence_claims
                  + f.no_evidence_claims + f.contradicted_claims
                  + f.uncertain_claims = f.total_claims

\* C33 witness: two different claims verified, one with weak evidence and
\* one with none.
C33_Witness ==
    /\ pFinal # None
    /\ Len(pClaims) = 2
    /\ pClaims[1] # pClaims[2]
    /\ pRecs[1].fused.status = "weak_evidence"
    /\ pRecs[2].fused.status = "no_evidence"
    /\ pFinal[1].weak_evidence_claims = 1
    /\ pFinal[1].no_evidence_claims = 1

----------------------------------------------------------------------------
(* Determinism of _score_relational (SpecRelScore)                         *)
(***************************************************************************)

\* C35: for a claim with two section tokens the exact-match score has the
\* same status and confidence whichever token is looked up first: the
\* score returned equals, in both, the score for every order of the tokens.
C35_OrderIndependent ==
    (xOut # None /\ Cardinality(SectionSet(xClaim)) = 2) =>
      \A secs \in ExtractSections(xClaim) :
        LET o == ScoreRelational(secs, xClaim, xTable)
        IN  /\ o.status = xOut[1].status
            /\ o.confidence = xOut[1].confidence

====
